---- MODULE Spec2Model ----
(***************************************************************************)
(* Incremental transcript sync of droid-sync: one process per hook event,  *)
(* sharing only the transcript file and the per-session sync-state file.   *)
(* Stop decodes the transcript, upserts the session, extracts the records  *)
(* not yet in the state file, sends them as one batch and then persists    *)
(* the grown id set; SessionEnd overwrites the state file with "{}".       *)
(***************************************************************************)
EXTENDS Integers, Sequences, FiniteSets, TLC

\* ------------------------------------------------------------------ bounds
\* Lines the host tool appends to one transcript.
MaxLines == 2
\* Hook invocations (processes) started in one behaviour.
MaxInvocations == 3

\* ------------------------------------------------------------------ data
Sessions == {"sA", "sB"}
Procs == {1, 2}

\* Text is a sequence of tokens; " " is whitespace, SecretToken has the
\* shape sk-[\w-]{20,} that redactSensitive masks.
SecretToken == "sk-live-0123456789abcdefghij"

TextBlock(t) == [type |-> "text", text |-> t, id |-> "", name |-> "", input |-> <<>>]

ThinkingBlock(t) ==
    [type |-> "thinking", text |-> t, id |-> "", name |-> "", input |-> <<>>]

\* A tool call: its id, the tool's name and the arguments, as tokens.
ToolUseBlock(i, n, a) ==
    [type |-> "tool_use", text |-> <<>>, id |-> i, name |-> n, input |-> a]

SessionStartLine(t) ==
    [type |-> "session_start", id |-> "", role |-> "", content |-> <<>>, title |-> t]

MessageLine(i, r, c) ==
    [type |-> "message", id |-> i, role |-> r, content |-> c, title |-> ""]

\* A line JSON.parse rejects (a truncated trailing line).
MalformedLine ==
    [type |-> "malformed", id |-> "", role |-> "", content |-> <<>>, title |-> ""]

\* A line that is JSON of type "message" without the message property:
\* its role and content are undefined.
BodilessMessageLine(i) ==
    [type |-> "message", id |-> i, role |-> "", content |-> <<>>, title |-> ""]

\* The message shapes the host tool writes: role and content blocks.
MessageShapes ==
    { [role |-> "user", content |-> << TextBlock(<<"hi">>) >>],
      [role |-> "user", content |-> << TextBlock(<<" ">>) >>],
      [role |-> "assistant",
       content |-> << TextBlock(<<"ok", SecretToken>>),
                      ToolUseBlock("t1", "Read", <<"src/a.ts">>) >>],
      [role |-> "assistant",
       content |-> << ToolUseBlock("t1", "Bash", <<"curl", SecretToken>>) >>],
      [role |-> "assistant",
       content |-> << ThinkingBlock(<<"hm">>), TextBlock(<<"a">>),
                      ToolUseBlock("t1", "Read", <<"src/a.ts">>),
                      TextBlock(<<"b">>), ToolUseBlock("t2", "Write", <<"out.txt">>) >>] }

\* Message ids are assigned by the host tool, unique within a session.
MessageId(k) == "m" \o ToString(k)

NumMessages(lines) == Len(SelectSeq(lines, LAMBDA l : l.type = "message"))

\* What the host tool may append next to a transcript.
AppendPool(lines) ==
    (IF lines = <<>> THEN {SessionStartLine("Fix bug")} ELSE {})
    \cup { MessageLine(MessageId(NumMessages(lines) + 1), s.role, s.content) :
             s \in MessageShapes }

\* Mutant: one state file whatever the session id.
GetSyncStateFile_OneFile(sessionId) == "sA"

\* getSyncStateFile: the path of the state file, <state dir>/<sessionId>.json,
\* identified here with the session id that names it.
GetSyncStateFile(sessionId) == sessionId

\* ------------------------------------------------------- sync state file
FileAbsent == [kind |-> "absent", ids |-> <<>>, lastSyncTime |-> 0]

\* Zero bytes: what open(path, "w") leaves before the first write.
FileEmpty == [kind |-> "empty", ids |-> <<>>, lastSyncTime |-> 0]

\* Bytes that are no JSON document: a prefix, or two writers' bytes mixed.
FilePartial == [kind |-> "partial", ids |-> <<>>, lastSyncTime |-> 0]

\* The two bytes "{}" clearSyncState writes.
FileEmptyObject == [kind |-> "emptyObject", ids |-> <<>>, lastSyncTime |-> 0]

FileState(ids, t) == [kind |-> "state", ids |-> ids, lastSyncTime |-> t]

ToSet(seq) == { seq[i] : i \in DOMAIN seq }

\* The ids a reader of the file finds persisted.
PersistedIds(file) == IF file.kind = "state" THEN ToSet(file.ids) ELSE {}

\* ------------------------------------------------------------ pure parts
\* Mutant: the state file is looked up under another name and never found.
LoadSyncState_AlwaysDefault(file) == [shape |-> "state", ids |-> <<>>]

\* loadSyncState: the default state when the file is absent or JSON.parse
\* throws; otherwise whatever value the JSON holds. "{}" parses to an
\* object with no syncedMessageIds property.
LoadSyncState(file) ==
    CASE file.kind = "state" -> [shape |-> "state", ids |-> file.ids]
      [] file.kind = "emptyObject" -> [shape |-> "noIds", ids |-> <<>>]
      [] OTHER -> [shape |-> "state", ids |-> <<>>]

\* parseTranscript: every line decoded on its own; a line JSON.parse rejects
\* is skipped; each session_start line overwrites result.sessionStart.
RECURSIVE ParseLines(_, _)
ParseLines(lines, result) ==
    IF lines = <<>> THEN result
    ELSE LET entry == Head(lines)
             tools == Len(SelectSeq(entry.content, LAMBDA b : b.type = "tool_use"))
             next ==
                 CASE entry.type = "session_start" ->
                        [result EXCEPT !.sessionStart = <<entry>>]
                   [] entry.type = "message" ->
                        [result EXCEPT
                           !.messages = Append(@, entry),
                           !.messageCount = @ + 1,
                           !.toolCallCount =
                               IF entry.role = "assistant" THEN @ + tools ELSE @]
                   [] OTHER -> result
         IN ParseLines(Tail(lines), next)

EmptyTranscript ==
    [sessionStart |-> <<>>, messages |-> <<>>, messageCount |-> 0, toolCallCount |-> 0]

ParseTranscript(lines) == ParseLines(lines, EmptyTranscript)

\* Mutant: the text of thinking blocks is added to textContent.
RECURSIVE ConcatText_WithThinking(_)
ConcatText_WithThinking(content) ==
    IF content = <<>> THEN <<>>
    ELSE (IF Head(content).type \in {"text", "thinking"} THEN Head(content).text ELSE <<>>)
         \o ConcatText_WithThinking(Tail(content))

\* textContent += block.text over the text blocks, in order.
RECURSIVE ConcatText(_)
ConcatText(content) ==
    IF content = <<>> THEN <<>>
    ELSE (IF Head(content).type = "text" THEN Head(content).text ELSE <<>>)
         \o ConcatText(Tail(content))

\* String.prototype.trim, then truthiness: some token is not whitespace.
TrimIsNonEmpty(text) == \E i \in DOMAIN text : text[i] # " "

\* redactSensitive: every match of a secret pattern becomes [REDACTED].
RedactSensitive(text) ==
    [i \in DOMAIN text |-> IF text[i] = SecretToken THEN "[REDACTED]" ELSE text[i]]

ToolMessageId(msgId, toolId) == msgId \o "-tool-" \o toolId

TextRecord(sessionId, msg, text) ==
    [sessionId |-> sessionId, messageId |-> msg.id, role |-> msg.role,
     content |-> RedactSensitive(text), toolName |-> "", toolArgs |-> <<>>]

ToolRecord(sessionId, msg, tool) ==
    [sessionId |-> sessionId, messageId |-> ToolMessageId(msg.id, tool.id),
     role |-> "assistant", content |-> <<>>, toolName |-> tool.name,
     toolArgs |-> tool.input]

\* Mutant: a tool call is pushed without looking its composite id up in
\* the synced set.
MessageRecords_NoToolCheck(sessionId, msg, syncedSet, syncToolCalls) ==
    IF msg.id \in syncedSet THEN <<>>
    ELSE LET textContent == ConcatText(msg.content)
             toolCalls ==
                 SelectSeq(msg.content, LAMBDA b : b.type = "tool_use" /\ syncToolCalls)
         IN (IF TrimIsNonEmpty(textContent)
                THEN << TextRecord(sessionId, msg, textContent) >> ELSE <<>>)
            \o [i \in DOMAIN toolCalls |-> ToolRecord(sessionId, msg, toolCalls[i])]

\* Mutant: the tool calls of a message are pushed before its text record.
MessageRecords_ToolsFirst(sessionId, msg, syncedSet, syncToolCalls) ==
    IF msg.id \in syncedSet THEN <<>>
    ELSE LET textContent == ConcatText(msg.content)
             toolCalls ==
                 SelectSeq(msg.content, LAMBDA b : b.type = "tool_use" /\ syncToolCalls)
             fresh ==
                 SelectSeq(toolCalls,
                           LAMBDA t : ToolMessageId(msg.id, t.id) \notin syncedSet)
         IN [i \in DOMAIN fresh |-> ToolRecord(sessionId, msg, fresh[i])]
            \o (IF TrimIsNonEmpty(textContent)
                   THEN << TextRecord(sessionId, msg, textContent) >> ELSE <<>>)

\* Mutant: tool_use blocks are collected whatever syncToolCalls is.
MessageRecords_IgnoresToolPolicy(sessionId, msg, syncedSet, syncToolCalls) ==
    IF msg.id \in syncedSet THEN <<>>
    ELSE LET textContent == ConcatText(msg.content)
             toolCalls == SelectSeq(msg.content, LAMBDA b : b.type = "tool_use")
             fresh ==
                 SelectSeq(toolCalls,
                           LAMBDA t : ToolMessageId(msg.id, t.id) \notin syncedSet)
         IN (IF TrimIsNonEmpty(textContent)
                THEN << TextRecord(sessionId, msg, textContent) >> ELSE <<>>)
            \o [i \in DOMAIN fresh |-> ToolRecord(sessionId, msg, fresh[i])]

\* The records one message yields in extractNewMessages' loop body.
MessageRecords(sessionId, msg, syncedSet, syncToolCalls) ==
    IF msg.id \in syncedSet THEN <<>>
    ELSE LET textContent == ConcatText(msg.content)
             toolCalls ==
                 SelectSeq(msg.content, LAMBDA b : b.type = "tool_use" /\ syncToolCalls)
             fresh ==
                 SelectSeq(toolCalls,
                           LAMBDA t : ToolMessageId(msg.id, t.id) \notin syncedSet)
         IN (IF TrimIsNonEmpty(textContent)
                THEN << TextRecord(sessionId, msg, textContent) >> ELSE <<>>)
            \o [i \in DOMAIN fresh |-> ToolRecord(sessionId, msg, fresh[i])]

\* Mutant: break instead of continue at a message that is already synced.
RECURSIVE ExtractLoop_BreakOnSynced(_, _, _, _)
ExtractLoop_BreakOnSynced(sessionId, messages, syncedSet, syncToolCalls) ==
    IF messages = <<>> \/ Head(messages).id \in syncedSet THEN <<>>
    ELSE MessageRecords(sessionId, Head(messages), syncedSet, syncToolCalls)
         \o ExtractLoop_BreakOnSynced(sessionId, Tail(messages), syncedSet, syncToolCalls)

RECURSIVE ExtractLoop(_, _, _, _)
ExtractLoop(sessionId, messages, syncedSet, syncToolCalls) ==
    IF messages = <<>> THEN <<>>
    ELSE MessageRecords(sessionId, Head(messages), syncedSet, syncToolCalls)
         \o ExtractLoop(sessionId, Tail(messages), syncedSet, syncToolCalls)

RecordIds(records) == [i \in DOMAIN records |-> records[i].messageId]

\* const { role, content } = msg.message throws a TypeError at the first
\* message that is not skipped as synced and has no message property.
LoopThrows(messages, syncedSet) ==
    \E i \in DOMAIN messages : messages[i].role = "" /\ messages[i].id \notin syncedSet

\* Mutant: allMessageIds.push(msg.id) runs for every unsynced message,
\* outside the test of its text.
ExtractNewMessages_MarksEveryMessage(sessionId, transcript, syncToolCalls, syncThinking, file) ==
    LET state == LoadSyncState(file)
        new == ExtractLoop(sessionId, transcript.messages, ToSet(state.ids), syncToolCalls)
        unsynced == SelectSeq(transcript.messages, LAMBDA m : m.id \notin ToSet(state.ids))
    IN IF state.shape # "state" \/ LoopThrows(transcript.messages, ToSet(state.ids))
          THEN [threw |-> TRUE, newMessages |-> <<>>, allMessageIds |-> <<>>]
          ELSE [threw |-> FALSE, newMessages |-> new,
                allMessageIds |->
                    state.ids \o [i \in DOMAIN unsynced |-> unsynced[i].id] \o RecordIds(new)]

\* Mutant: allMessageIds.push(toolMessageId) is missing.
ExtractNewMessages_NoToolIds(sessionId, transcript, syncToolCalls, syncThinking, file) ==
    LET state == LoadSyncState(file)
        new == ExtractLoop(sessionId, transcript.messages, ToSet(state.ids), syncToolCalls)
    IN IF state.shape # "state" \/ LoopThrows(transcript.messages, ToSet(state.ids))
          THEN [threw |-> TRUE, newMessages |-> <<>>, allMessageIds |-> <<>>]
          ELSE [threw |-> FALSE, newMessages |-> new,
                allMessageIds |->
                    state.ids \o RecordIds(SelectSeq(new, LAMBDA r : r.toolName = ""))]

\* Mutant: with syncThinking the content of thinking blocks is added to
\* the text of the message.
ExtractNewMessages_ThinkingAsText(sessionId, transcript, syncToolCalls, syncThinking, file) ==
    LET state == LoadSyncState(file)
        asText(b) == IF b.type = "thinking" /\ syncThinking
                        THEN [b EXCEPT !.type = "text"] ELSE b
        messages == [i \in DOMAIN transcript.messages |->
                       [transcript.messages[i] EXCEPT
                          !.content = [j \in DOMAIN @ |-> asText(@[j])]]]
        new == ExtractLoop(sessionId, messages, ToSet(state.ids), syncToolCalls)
    IN IF state.shape # "state" \/ LoopThrows(transcript.messages, ToSet(state.ids))
          THEN [threw |-> TRUE, newMessages |-> <<>>, allMessageIds |-> <<>>]
          ELSE [threw |-> FALSE, newMessages |-> new,
                allMessageIds |-> state.ids \o RecordIds(new)]

\* extractNewMessages. [...state.syncedMessageIds] throws a TypeError when
\* the loaded value has no syncedMessageIds array, and so does the loop at
\* a message without message property. syncThinking selects a branch with
\* an empty body.
ExtractNewMessages(sessionId, transcript, syncToolCalls, syncThinking, file) ==
    LET state == LoadSyncState(file)
        new == ExtractLoop(sessionId, transcript.messages, ToSet(state.ids), syncToolCalls)
    IN IF state.shape # "state" \/ LoopThrows(transcript.messages, ToSet(state.ids))
          THEN [threw |-> TRUE, newMessages |-> <<>>, allMessageIds |-> <<>>]
          ELSE [threw |-> FALSE, newMessages |-> new,
                allMessageIds |-> state.ids \o RecordIds(new)]

\* Array.from(new Set(seq)): first occurrences, in insertion order.
RECURSIVE Dedup(_)
Dedup(seq) ==
    IF seq = <<>> THEN <<>>
    ELSE LET front == Dedup(SubSeq(seq, 1, Len(seq) - 1))
             last == seq[Len(seq)]
         IN IF last \in ToSet(front) THEN front ELSE Append(front, last)

\* Mutant: only the ids that were not yet in the loaded state are saved.
MarkMessagesSynced_DeltaOnly(file, messageIds) ==
    Dedup(SelectSeq(messageIds, LAMBDA id : id \notin ToSet(LoadSyncState(file).ids)))

\* markMessagesSynced: the ids to save, a Set of the loaded ids (none when
\* the value has no syncedMessageIds) with every messageId added.
MarkMessagesSynced(file, messageIds) ==
    Dedup(LoadSyncState(file).ids \o messageIds)

\* ---------------------------------------------------------------- state
VARIABLES
    transcriptFile,  \* session -> the lines of its transcript file
    stateFile,       \* session -> the content of state/<sessionId>.json
    config,          \* the configuration getConfig returns
    proc,            \* hook process -> its locals and its position
    acked,           \* the batches the backend acknowledged, in order
    prev,            \* the record of the invocation that finished last
    invocations,     \* hook processes started so far
    policyChanged,   \* whether the configuration was edited since Init
    lastClear        \* session -> the batches acknowledged when clearSyncState last ran

vars ==
    << transcriptFile, stateFile, config, proc, acked, prev, invocations, policyChanged,
       lastClear >>

\* The configurations under which hooks sync.
ConfigPool ==
    { [present |-> TRUE, autoSync |-> TRUE, syncToolCalls |-> TRUE, syncThinking |-> FALSE],
      [present |-> TRUE, autoSync |-> TRUE, syncToolCalls |-> FALSE, syncThinking |-> FALSE] }

\* getConfig returns null: no credentials in the environment, no config file.
NoConfig ==
    [present |-> FALSE, autoSync |-> FALSE, syncToolCalls |-> FALSE, syncThinking |-> FALSE]

\* Credentials are there and autoSync is false.
AutoSyncOff ==
    [present |-> TRUE, autoSync |-> FALSE, syncToolCalls |-> TRUE, syncThinking |-> FALSE]

AllConfigs == ConfigPool \cup {NoConfig, AutoSyncOff}

\* The event names the host tool passes as `droid-sync hook <name>`; "" is
\* the missing argument.
EventNames == {"Stop", "SessionEnd", "session-end", "PreToolUse", ""}

\* The characters of the event names that occur.
Chars(eventName) ==
    CASE eventName = "Stop" -> <<"S", "t", "o", "p">>
      [] eventName = "stop" -> <<"s", "t", "o", "p">>
      [] eventName = "SessionEnd" -> <<"S", "e", "s", "s", "i", "o", "n", "E", "n", "d">>
      [] eventName = "session-end" -> <<"s", "e", "s", "s", "i", "o", "n", "-", "e", "n", "d">>
      [] eventName = "sessionend" -> <<"s", "e", "s", "s", "i", "o", "n", "e", "n", "d">>
      [] eventName = "PreToolUse" -> <<"P", "r", "e", "T", "o", "o", "l", "U", "s", "e">>
      [] eventName = "pretooluse" -> <<"p", "r", "e", "t", "o", "o", "l", "u", "s", "e">>
      [] eventName = "SessionStart" -> <<"S", "e", "s", "s", "i", "o", "n", "S", "t", "a", "r", "t">>
      [] eventName = "session-start" -> <<"s", "e", "s", "s", "i", "o", "n", "-", "s", "t", "a", "r", "t">>
      [] eventName = "sessionstart" -> <<"s", "e", "s", "s", "i", "o", "n", "s", "t", "a", "r", "t">>
      [] eventName = "SESSION-START" -> <<"S", "E", "S", "S", "I", "O", "N", "-", "S", "T", "A", "R", "T">>
      [] eventName = "UserPromptSubmit" -> <<"U", "s", "e", "r", "P", "r", "o", "m", "p", "t", "S", "u", "b", "m", "i", "t">>
      [] eventName = "user-prompt-submit" -> <<"u", "s", "e", "r", "-", "p", "r", "o", "m", "p", "t", "-", "s", "u", "b", "m", "i", "t">>
      [] eventName = "userpromptsubmit" -> <<"u", "s", "e", "r", "p", "r", "o", "m", "p", "t", "s", "u", "b", "m", "i", "t">>
      [] eventName = "PostToolUse" -> <<"P", "o", "s", "t", "T", "o", "o", "l", "U", "s", "e">>
      [] eventName = "post-tool-use" -> <<"p", "o", "s", "t", "-", "t", "o", "o", "l", "-", "u", "s", "e">>
      [] eventName = "posttooluse" -> <<"p", "o", "s", "t", "t", "o", "o", "l", "u", "s", "e">>
      [] eventName = "session_start" -> <<"s", "e", "s", "s", "i", "o", "n", "_", "s", "t", "a", "r", "t">>
      [] OTHER -> <<>>

UpperCase == << "A", "B", "C", "D", "E", "F", "G", "H", "I", "J", "K", "L", "M",
               "N", "O", "P", "Q", "R", "S", "T", "U", "V", "W", "X", "Y", "Z" >>

LowerCase == << "a", "b", "c", "d", "e", "f", "g", "h", "i", "j", "k", "l", "m",
               "n", "o", "p", "q", "r", "s", "t", "u", "v", "w", "x", "y", "z" >>

\* One character of toLowerCase()
ToLowerCase(c) ==
    IF \E k \in DOMAIN UpperCase : UpperCase[k] = c
       THEN LowerCase[CHOOSE k \in DOMAIN UpperCase : UpperCase[k] = c]
       ELSE c

\* Mutant: the name is lower-cased and its hyphens are kept.
NormalizeChars_KeepsHyphens(chars) == [k \in DOMAIN chars |-> ToLowerCase(chars[k])]

\* eventName.toLowerCase().replace(/-/g, ""), character by character
NormalizeChars(chars) ==
    SelectSeq([k \in DOMAIN chars |-> ToLowerCase(chars[k])], LAMBDA c : c # "-")

\* The strings a normalized event name can be.
NormalizedNames ==
    {"stop", "sessionend", "pretooluse", "sessionstart", "userpromptsubmit",
     "posttooluse", "session_start"}

\* The string eventName.toLowerCase().replace(/-/g, "") is.
NormalizeName(eventName) ==
    LET normalized == NormalizeChars(Chars(eventName))
    IN IF \E n \in NormalizedNames : Chars(n) = normalized
          THEN CHOOSE n \in NormalizedNames : Chars(n) = normalized
          ELSE ""

\* The event names hook commands are run with, each with its normal form.
EventNamePool ==
    {"", "Stop", "stop", "SessionEnd", "session-end", "sessionend", "PreToolUse",
     "pretooluse", "SessionStart", "session-start", "sessionstart", "SESSION-START",
     "UserPromptSubmit", "user-prompt-submit", "userpromptsubmit", "PostToolUse",
     "post-tool-use", "posttooluse", "session_start"}

NormalizedEvents == [eventName \in EventNamePool |-> NormalizeName(eventName)]

\* const normalizedEvent = eventName.toLowerCase().replace(/-/g, "")
NormalizeEvent(eventName) == NormalizedEvents[eventName]

\* What the process reads from stdin: a JSON object with sessionId and
\* the transcriptPath of its transcript ("ok"), one whose transcriptPath
\* names no existing file ("missingFile"), one without transcriptPath
\* ("noPath"), the JSON value null ("null"), whitespace only ("empty"),
\* bytes that are no JSON ("malformed").
Payloads == {"ok", "missingFile", "noPath", "null", "empty", "malformed"}

\* Mutant: an event no case names falls through to the stop handler.
HandlerFor_DefaultRunsStop(normalizedEvent) ==
    CASE normalizedEvent = "sessionend" -> "handleSessionEnd"
      [] OTHER -> "handleStop"

\* Mutant: the session-end case runs the sync of the stop handler.
HandlerFor_EndRunsStop(normalizedEvent) ==
    CASE normalizedEvent \in {"stop", "sessionend"} -> "handleStop"
      [] OTHER -> "none"

\* dispatchHook's switch (normalizedEvent)
HandlerFor(normalizedEvent) ==
    CASE normalizedEvent = "stop" -> "handleStop"
      [] normalizedEvent = "sessionend" -> "handleSessionEnd"
      [] OTHER -> "none"

Route(pc, handler, outcome, exitCode) ==
    [pc |-> pc, handler |-> handler, outcome |-> outcome, exitCode |-> exitCode]

\* handleStop up to its first file access: no client or autoSync unset
\* returns, input.transcriptPath of null throws (caught by dispatchHook),
\* a payload without transcriptPath returns.
HandleStopEntry(cfg, inputJson) ==
    IF ~cfg.present \/ ~cfg.autoSync THEN Route("exit", "handleStop", "stopDisabled", 0)
    ELSE IF inputJson = "null" THEN Route("exit", "handleStop", "handlerThrew", 0)
    ELSE IF inputJson = "noPath" THEN Route("exit", "handleStop", "noTranscriptPath", 0)
    ELSE Route("parse", "handleStop", "running", 0)

\* handleSessionEnd up to clearSyncState: input.sessionId of null throws.
HandleSessionEndEntry(cfg, inputJson) ==
    IF inputJson = "null" THEN Route("exit", "handleSessionEnd", "handlerThrew", 0)
    ELSE Route("clearOpen", "handleSessionEnd", "running", 0)

\* Mutant: the payload is read and decoded before the configuration is
\* looked at, and the handlers run without the autoSync test.
DispatchHook_NoConfigCheck(cfg, eventName, inputJson) ==
    IF inputJson = "empty" THEN Route("exit", "none", "emptyPayload", 0)
    ELSE IF inputJson = "malformed" THEN Route("exit", "none", "invalidJson", 1)
    ELSE CASE HandlerFor(NormalizeEvent(eventName)) = "handleStop" ->
                HandleStopEntry(cfg, inputJson)
           [] HandlerFor(NormalizeEvent(eventName)) = "handleSessionEnd" ->
                HandleSessionEndEntry(cfg, inputJson)
           [] OTHER -> Route("exit", "none", "ignored", 0)

\* Mutant: a payload JSON.parse rejects is handed on as an empty object.
DispatchHook_ParseErrorIgnored(cfg, eventName, inputJson) ==
    IF ~cfg.present \/ ~cfg.autoSync THEN Route("exit", "none", "disabled", 0)
    ELSE IF inputJson = "empty" THEN Route("exit", "none", "emptyPayload", 0)
    ELSE CASE HandlerFor(NormalizeEvent(eventName)) = "handleStop" ->
                HandleStopEntry(cfg, IF inputJson = "malformed" THEN "noPath" ELSE inputJson)
           [] HandlerFor(NormalizeEvent(eventName)) = "handleSessionEnd" ->
                HandleSessionEndEntry(cfg, IF inputJson = "malformed" THEN "noPath" ELSE inputJson)
           [] OTHER -> Route("exit", "none", "ignored", 0)

\* dispatchHook: the configuration test, the read of stdin, the empty test,
\* JSON.parse, and the switch on the normalized event name.
DispatchHook(cfg, eventName, inputJson) ==
    IF ~cfg.present \/ ~cfg.autoSync THEN Route("exit", "none", "disabled", 0)
    ELSE IF inputJson = "empty" THEN Route("exit", "none", "emptyPayload", 0)
    ELSE IF inputJson = "malformed" THEN Route("exit", "none", "invalidJson", 1)
    ELSE CASE HandlerFor(NormalizeEvent(eventName)) = "handleStop" ->
                HandleStopEntry(cfg, inputJson)
           [] HandlerFor(NormalizeEvent(eventName)) = "handleSessionEnd" ->
                HandleSessionEndEntry(cfg, inputJson)
           [] OTHER -> Route("exit", "none", "ignored", 0)

\* main's hook case: a missing event name exits with status 1.
Main(cfg, eventName, inputJson) ==
    IF eventName = "" THEN Route("exit", "none", "missingEvent", 1)
    ELSE DispatchHook(cfg, eventName, inputJson)

\* ----------------------------------------------------------- transport
\* What fetch yields for a POST: a response with status and body, the body
\* being JSON or not, or a rejection (no connection).
NoResponse == [kind |-> "none", status |-> 0, body |-> "", json |-> FALSE]

Rejected == [kind |-> "rejected", status |-> 0, body |-> "", json |-> FALSE]

Responses ==
    { [kind |-> "answered", status |-> st, body |-> "{}", json |-> TRUE] :
         st \in {200, 299, 300, 401, 500} }
    \cup { [kind |-> "answered", status |-> st, body |-> b, json |-> FALSE] :
              st \in {200, 300, 401, 500}, b \in {"", "unauthorized"} }
    \cup { Rejected }

\* response.ok
ResponseOk(r) == r.status >= 200 /\ r.status <= 299

\* `Sync failed: ${response.status} - ${text}`
SyncFailed(r) == "Sync failed: " \o ToString(r.status) \o " - " \o r.body

Returned(result) == [threw |-> FALSE, message |-> ""]

Thrown(message) == [threw |-> TRUE, message |-> message]

\* Mutant: a response that is not ok is logged and request returns.
Request_ReturnsOnError(r) ==
    IF r.kind = "rejected" THEN Thrown("fetch failed")
    ELSE IF ~ResponseOk(r) THEN Returned(r.body)
    ELSE IF ~r.json THEN Thrown("SyntaxError")
    ELSE Returned(r.body)

\* SyncClient.request: fetch, the test of response.ok, response.json().
\* syncSession, syncMessage and syncBatch log the error and throw it again.
Request(r) ==
    IF r.kind = "rejected" THEN Thrown("fetch failed")
    ELSE IF ~ResponseOk(r) THEN Thrown(SyncFailed(r))
    ELSE IF ~r.json THEN Thrown("SyntaxError")
    ELSE Returned(r.body)

IdleProc ==
    [pc |-> "idle", event |-> "", payload |-> "", enabled |-> FALSE,
     handler |-> "none", steps |-> <<>>,
     session |-> "", syncToolCalls |-> FALSE,
     syncThinking |-> FALSE, lines |-> <<>>, transcript |-> EmptyTranscript,
     newMessages |-> <<>>, allMessageIds |-> <<>>, batchResult |-> "none",
     toSave |-> <<>>, outcome |-> "", exitCode |-> 0, fileAtStart |-> FileAbsent,
     fileLoaded |-> FileAbsent, loaded |-> FALSE,
     response |-> NoResponse, error |-> "", overlapped |-> FALSE]

Init ==
    /\ transcriptFile = [s \in Sessions |-> <<>>]
    /\ stateFile = [s \in Sessions |-> FileAbsent]
    /\ config \in ConfigPool
    /\ proc = [p \in Procs |-> IdleProc]
    /\ acked = <<>>
    /\ lastClear = [s \in Sessions |-> 0]
    /\ prev = IdleProc
    /\ invocations = 0
    /\ policyChanged = FALSE

Finished(p) == proc[p].pc \in {"idle", "exit"}

AllIdle == \A p \in Procs : Finished(p)

\* The call `name` is added to the calls the process has made.
Did(q, name) == [q EXCEPT !.steps = Append(@, name)]

\* The outcomes with which an error left a handler.
HandlerErrors == {"sessionFailed", "extractThrew", "batchFailed", "handlerThrew"}

\* Mutant: the catch block of dispatchHook exits with status 1.
Exit_NonZeroOnError(p, outcome) ==
    [proc[p] EXCEPT !.pc = "exit", !.outcome = outcome,
                    !.exitCode = IF outcome \in HandlerErrors THEN 1 ELSE 0]

\* The handler returned or threw: dispatchHook exits with status 0 either way.
Exit(p, outcome) == [proc[p] EXCEPT !.pc = "exit", !.outcome = outcome, !.exitCode = 0]

\* --------------------------------------------------------- environment
\* The host tool appends one line to the session's transcript.
AppendLine(s) ==
    /\ Len(transcriptFile[s]) < MaxLines
    /\ \E line \in AppendPool(transcriptFile[s]) :
         transcriptFile' = [transcriptFile EXCEPT ![s] = Append(@, line)]
    /\ UNCHANGED << stateFile, config, proc, acked, prev, invocations, policyChanged, lastClear >>

\* The user edits the configuration between invocations.
SetConfig(c) ==
    /\ c # config
    /\ config' = c
    /\ policyChanged' = TRUE
    /\ UNCHANGED << transcriptFile, stateFile, proc, acked, prev, invocations, lastClear >>

\* ------------------------------------------------------------ dispatch
\* A fresh process runs main and dispatchHook on the event name and the
\* payload, up to the first file access of the handler it routes to. It is
\* noted whether another hook process was running when it started.
Dispatch(p, s, event, payload) ==
    /\ Finished(p)
    /\ invocations < MaxInvocations
    /\ invocations' = invocations + 1
    /\ LET r == Main(config, event, payload)
       IN proc' = [proc EXCEPT ![p] =
                     [IdleProc EXCEPT
                        !.pc = r.pc, !.handler = r.handler, !.outcome = r.outcome,
                        !.exitCode = r.exitCode,
                        !.event = event, !.payload = payload, !.session = s,
                        !.enabled = config.present /\ config.autoSync,
                        !.syncToolCalls = config.syncToolCalls,
                        !.syncThinking = config.syncThinking,
                        !.overlapped = \E q \in Procs \ {p} : ~Finished(q),
                        !.fileAtStart = stateFile[s]]]
    /\ UNCHANGED << transcriptFile, stateFile, config, acked, policyChanged, lastClear >>

\* A hook fired after the previous hook process of the session has exited.
Start(p, s, event) ==
    /\ AllIdle
    /\ Dispatch(p, s, event, "ok")
    /\ prev' = IF proc[p].pc = "exit" THEN proc[p] ELSE prev

\* A hook fired while another hook process may still be running. A free
\* process slot is taken in order, the slots being interchangeable.
StartConcurrent(p, s, event) ==
    /\ \A q \in Procs : q < p => ~Finished(q)
    /\ Dispatch(p, s, event, "ok")
    /\ UNCHANGED prev

\* A hook fired with any event name and any payload, after the previous
\* hook process has exited.
StartHook(p, s, event, payload) ==
    /\ AllIdle
    /\ Dispatch(p, s, event, payload)
    /\ UNCHANGED prev

\* ---------------------------------------------------------- handleStop
\* parseTranscript(input.transcriptPath): the lines of the file, none when
\* no file exists under the path.
ParseStep(p) ==
    /\ proc[p].pc = "parse"
    /\ LET content == IF proc[p].payload = "missingFile" THEN <<>>
                      ELSE transcriptFile[proc[p].session]
       IN proc' = [proc EXCEPT ![p] =
                     [Did(@, "parseTranscript") EXCEPT !.pc = "syncSession",
                               !.lines = content,
                               !.transcript = ParseTranscript(content)]]
    /\ UNCHANGED << transcriptFile, stateFile, config, acked, prev, invocations, policyChanged, lastClear >>

\* await client.syncSession(...) answered 2xx
SyncSessionOk(p) ==
    /\ proc[p].pc = "syncSession"
    /\ proc' = [proc EXCEPT ![p] = [Did(@, "syncSession") EXCEPT !.pc = "extract"]]
    /\ UNCHANGED << transcriptFile, stateFile, config, acked, prev, invocations, policyChanged, lastClear >>

\* await client.syncSession(...) rejected: the error leaves handleStop
SyncSessionFail(p) ==
    /\ proc[p].pc = "syncSession"
    /\ proc' = [proc EXCEPT ![p] = Did(Exit(p, "sessionFailed"), "syncSession")]
    /\ UNCHANGED << transcriptFile, stateFile, config, acked, prev, invocations, policyChanged, lastClear >>

\* Mutant: markMessagesSynced is called before client.syncBatch.
ExtractStep_PersistBeforeSend(p) ==
    /\ proc[p].pc = "extract"
    /\ LET file == stateFile[GetSyncStateFile(proc[p].session)]
           r == ExtractNewMessages(proc[p].session, proc[p].transcript,
                                   proc[p].syncToolCalls, proc[p].syncThinking, file)
           target == IF r.threw THEN Exit(p, "extractThrew")
                     ELSE IF r.newMessages = <<>> THEN Exit(p, "nothingNew")
                     ELSE [proc[p] EXCEPT !.pc = "markLoad"]
       IN proc' = [proc EXCEPT ![p] =
                     [Did(target, "extractNewMessages") EXCEPT
                        !.fileLoaded = file, !.loaded = TRUE,
                        !.newMessages = r.newMessages,
                        !.allMessageIds = r.allMessageIds]]
    /\ UNCHANGED << transcriptFile, stateFile, config, acked, prev, invocations, policyChanged, lastClear >>

\* Mutant: the batch is sent and the state saved without the test of
\* newMessages.length.
ExtractStep_NoLengthTest(p) ==
    /\ proc[p].pc = "extract"
    /\ LET file == stateFile[GetSyncStateFile(proc[p].session)]
           r == ExtractNewMessages(proc[p].session, proc[p].transcript,
                                   proc[p].syncToolCalls, proc[p].syncThinking, file)
           target == IF r.threw THEN Exit(p, "extractThrew")
                     ELSE [proc[p] EXCEPT !.pc = "syncBatch"]
       IN proc' = [proc EXCEPT ![p] =
                     [Did(target, "extractNewMessages") EXCEPT
                        !.fileLoaded = file, !.loaded = TRUE,
                        !.newMessages = r.newMessages,
                        !.allMessageIds = r.allMessageIds]]
    /\ UNCHANGED << transcriptFile, stateFile, config, acked, prev, invocations, policyChanged, lastClear >>

\* extractNewMessages(...), then the test newMessages.length > 0
ExtractStep(p) ==
    /\ proc[p].pc = "extract"
    /\ LET file == stateFile[GetSyncStateFile(proc[p].session)]
           r == ExtractNewMessages(proc[p].session, proc[p].transcript,
                                   proc[p].syncToolCalls, proc[p].syncThinking, file)
           target == IF r.threw THEN Exit(p, "extractThrew")
                     ELSE IF r.newMessages = <<>> THEN Exit(p, "nothingNew")
                     ELSE [proc[p] EXCEPT !.pc = "syncBatch"]
       IN proc' = [proc EXCEPT ![p] =
                     [Did(target, "extractNewMessages") EXCEPT
                        !.fileLoaded = file, !.loaded = TRUE,
                        !.newMessages = r.newMessages,
                        !.allMessageIds = r.allMessageIds]]
    /\ UNCHANGED << transcriptFile, stateFile, config, acked, prev, invocations, policyChanged, lastClear >>

\* await client.syncBatch([], newMessages) answered 2xx
SyncBatchOk(p) ==
    /\ proc[p].pc = "syncBatch"
    /\ acked' = Append(acked, [session |-> proc[p].session,
                               ids |-> RecordIds(proc[p].newMessages)])
    /\ proc' = [proc EXCEPT ![p] =
                  [Did(@, "syncBatch") EXCEPT !.pc = "markLoad", !.batchResult = "ok"]]
    /\ UNCHANGED << transcriptFile, stateFile, config, prev, invocations, policyChanged, lastClear >>

\* Mutant: the rejection is swallowed and markMessagesSynced still runs.
SyncBatchFail_StillMarks(p) ==
    /\ proc[p].pc = "syncBatch"
    /\ proc' = [proc EXCEPT ![p] =
                  [Did(@, "syncBatch") EXCEPT !.pc = "markLoad", !.batchResult = "failed"]]
    /\ UNCHANGED << transcriptFile, stateFile, config, acked, prev, invocations, policyChanged, lastClear >>

\* await client.syncBatch([], newMessages) rejected (network error or a
\* non-2xx answer): markMessagesSynced is not reached
SyncBatchFail(p) ==
    /\ proc[p].pc = "syncBatch"
    /\ proc' = [proc EXCEPT ![p] =
                  [Did(Exit(p, "batchFailed"), "syncBatch") EXCEPT !.batchResult = "failed"]]
    /\ UNCHANGED << transcriptFile, stateFile, config, acked, prev, invocations, policyChanged, lastClear >>

\* markMessagesSynced: loadSyncState and the merge into a Set
MarkLoad(p) ==
    /\ proc[p].pc = "markLoad"
    /\ proc' = [proc EXCEPT ![p] =
                  [Did(@, "markMessagesSynced") EXCEPT !.pc = "saveOpen",
                            !.toSave = MarkMessagesSynced(stateFile[GetSyncStateFile(proc[p].session)],
                                                          proc[p].allMessageIds)]]
    /\ UNCHANGED << transcriptFile, stateFile, config, acked, prev, invocations, policyChanged, lastClear >>

\* saveSyncState, writeFileSync's open(file, "w"): the file is truncated
SaveOpen(p) ==
    /\ proc[p].pc = "saveOpen"
    /\ stateFile' = [stateFile EXCEPT ![GetSyncStateFile(proc[p].session)] = FileEmpty]
    /\ proc' = [proc EXCEPT ![p] = [Did(@, "saveSyncState") EXCEPT !.pc = "saveWrite"]]
    /\ UNCHANGED << transcriptFile, config, acked, prev, invocations, policyChanged, lastClear >>

\* The bytes of JSON.stringify(state): the ids quoted and comma-separated
\* inside a frame of fixed length (the ISO time has 24 characters).
RECURSIVE IdBytes(_)
IdBytes(ids) ==
    IF ids = <<>> THEN 0
    ELSE Len(Head(ids)) + 2 + (IF Len(ids) > 1 THEN 1 ELSE 0) + IdBytes(Tail(ids))

StateFrameBytes == 65

ByteLen(file) ==
    CASE file.kind = "state" -> StateFrameBytes + IdBytes(file.ids)
      [] file.kind = "emptyObject" -> 2
      [] OTHER -> 0

\* What a write of `new` at offset 0 leaves in a file that another process
\* wrote since this one truncated it: `new` when it covers the bytes there,
\* else `new` followed by the tail of the longer content.
WriteOutcomes(current, new) ==
    CASE current.kind \in {"absent", "empty"} -> {new}
      [] current.kind = "partial" -> {new, FilePartial}
      [] OTHER -> IF ByteLen(current) > ByteLen(new) THEN {FilePartial} ELSE {new}

\* saveSyncState, writeFileSync's write and close
SaveWrite(p) ==
    /\ proc[p].pc = "saveWrite"
    /\ \E out \in WriteOutcomes(stateFile[GetSyncStateFile(proc[p].session)],
                                FileState(proc[p].toSave, invocations)) :
         stateFile' = [stateFile EXCEPT ![GetSyncStateFile(proc[p].session)] = out]
    /\ proc' = [proc EXCEPT ![p] = Exit(p, "saved")]
    /\ UNCHANGED << transcriptFile, config, acked, prev, invocations, policyChanged, lastClear >>

\* ---------------------------------------------------- handleSessionEnd
\* Mutant: clearSyncState finds no file under the path it builds.
ClearOpen_FindsNoFile(p) ==
    /\ proc[p].pc = "clearOpen"
    /\ proc' = [proc EXCEPT ![p] = Did(Exit(p, "nothingToClear"), "clearSyncState")]
    /\ UNCHANGED << transcriptFile, stateFile, config, acked, prev, invocations, policyChanged, lastClear >>

\* clearSyncState: existsSync(file), then writeFileSync's open. The call
\* is noted in lastClear.
ClearOpen(p) ==
    /\ proc[p].pc = "clearOpen"
    /\ IF stateFile[GetSyncStateFile(proc[p].session)].kind = "absent"
          THEN /\ proc' = [proc EXCEPT ![p] = Did(Exit(p, "nothingToClear"), "clearSyncState")]
               /\ UNCHANGED stateFile
          ELSE /\ proc' = [proc EXCEPT ![p] =
                              [Did(@, "clearSyncState") EXCEPT !.pc = "clearWrite"]]
               /\ stateFile' = [stateFile EXCEPT ![GetSyncStateFile(proc[p].session)] = FileEmpty]
    /\ lastClear' = [lastClear EXCEPT ![proc[p].session] = Len(acked)]
    /\ UNCHANGED << transcriptFile, config, acked, prev, invocations, policyChanged >>

\* clearSyncState: writeFileSync's write of "{}" and close
ClearWrite(p) ==
    /\ proc[p].pc = "clearWrite"
    /\ \E out \in WriteOutcomes(stateFile[GetSyncStateFile(proc[p].session)], FileEmptyObject) :
         stateFile' = [stateFile EXCEPT ![GetSyncStateFile(proc[p].session)] = out]
    /\ proc' = [proc EXCEPT ![p] = Exit(p, "cleared")]
    /\ UNCHANGED << transcriptFile, config, acked, prev, invocations, policyChanged, lastClear >>

\* ----------------------------------------------------------------- kill
\* The process is killed from outside at its current step. Killed inside
\* writeFileSync it leaves the truncated file, or a prefix of the bytes.
Kill(p) ==
    /\ ~Finished(p)
    /\ proc' = [proc EXCEPT ![p] = [@ EXCEPT !.pc = "exit", !.outcome = "killed",
                                             !.exitCode = 137]]
    /\ IF proc[p].pc = "saveWrite"
          THEN \E out \in {FileEmpty, FilePartial} :
                 stateFile' = [stateFile EXCEPT ![GetSyncStateFile(proc[p].session)] = out]
          ELSE UNCHANGED stateFile
    /\ UNCHANGED << transcriptFile, config, acked, prev, invocations, policyChanged, lastClear >>

\* ------------------------------------------------------- specifications
HandlerStep(p) ==
    \/ ParseStep(p)
    \/ SyncSessionOk(p)
    \/ SyncSessionFail(p)
    \/ ExtractStep(p)
    \/ SyncBatchOk(p)
    \/ SyncBatchFail(p)
    \/ MarkLoad(p)
    \/ SaveOpen(p)
    \/ SaveWrite(p)
    \/ ClearOpen(p)
    \/ ClearWrite(p)

\* One session whose hooks fire one after another: a process starts, and
\* the host tool writes, only when no hook process is running.
Next ==
    \/ AllIdle /\ AppendLine("sA")
    \/ AllIdle /\ \E c \in ConfigPool : SetConfig(c)
    \/ \E event \in {"Stop", "SessionEnd"} : Start(1, "sA", event)
    \/ HandlerStep(1)

Spec == Init /\ [][Next]_vars

\* The same, with the process killed at any step.
NextCrash ==
    \/ AllIdle /\ AppendLine("sA")
    \/ \E event \in {"Stop", "SessionEnd"} : Start(1, "sA", event)
    \/ HandlerStep(1)
    \/ Kill(1)

SpecCrash == Init /\ [][NextCrash]_vars

\* Two Stop processes of one session whose steps interleave freely, while
\* the host tool keeps writing the transcript.
StopStep(p) ==
    \/ ParseStep(p)
    \/ SyncSessionOk(p)
    \/ SyncSessionFail(p)
    \/ ExtractStep(p)
    \/ SyncBatchOk(p)
    \/ SyncBatchFail(p)
    \/ MarkLoad(p)
    \/ SaveOpen(p)
    \/ SaveWrite(p)

NextStops ==
    \/ AppendLine("sA")
    \/ \E p \in Procs : StartConcurrent(p, "sA", "Stop")
    \/ \E p \in Procs : StopStep(p)

SpecStops == Init /\ [][NextStops]_vars

\* The transcripts of the sessions whose hooks fire: none written yet, or
\* a title, a prompt and an answer with a secret and a tool call.
HookTranscripts ==
    { <<>>,
      << SessionStartLine("Fix bug"),
         MessageLine(MessageId(1), "user", << TextBlock(<<"hi">>) >>),
         MessageLine(MessageId(2), "assistant",
                     << TextBlock(<<"ok", SecretToken>>),
                        ToolUseBlock("t1", "Read", <<"src/a.ts">>) >>) >> }

\* Hooks of two sessions fired one after another with any event name, any
\* payload and any configuration.
InitHooks ==
    /\ transcriptFile \in [Sessions -> HookTranscripts]
    /\ stateFile = [s \in Sessions |-> FileAbsent]
    /\ config \in AllConfigs
    /\ proc = [p \in Procs |-> IdleProc]
    /\ acked = <<>>
    /\ lastClear = [s \in Sessions |-> 0]
    /\ prev = IdleProc
    /\ invocations = 0
    /\ policyChanged = FALSE

NextHooks ==
    \/ AllIdle /\ \E c \in AllConfigs : SetConfig(c)
    \/ \E s \in Sessions, event \in EventNames, payload \in Payloads :
         StartHook(1, s, event, payload)
    \/ HandlerStep(1)

SpecHooks == InitHooks /\ [][NextHooks]_vars

\* Extraction applied to every transcript the host tool can have written
\* and every synced set a state file can hold.
RECURSIVE TranscriptsUpTo(_)
TranscriptsUpTo(n) ==
    IF n = 0 THEN { <<>> }
    ELSE LET shorter == TranscriptsUpTo(n - 1)
         IN shorter \cup UNION { { Append(t, line) : line \in AppendPool(t) } :
                                   t \in { u \in shorter : Len(u) = n - 1 } }

\* Every id extraction can emit for these lines, in file order, after one
\* id no line of the transcript carries.
RECURSIVE LineIds(_)
LineIds(lines) ==
    IF lines = <<>> THEN <<>>
    ELSE LET l == Head(lines)
             tools == SelectSeq(l.content, LAMBDA b : b.type = "tool_use")
         IN (IF l.type = "message"
                THEN << l.id >> \o [i \in DOMAIN tools |-> ToolMessageId(l.id, tools[i].id)]
                ELSE <<>>)
            \o LineIds(Tail(lines))

ForeignId == "m0"

StateFilesFor(lines) ==
    LET universe == << ForeignId >> \o LineIds(lines)
    IN { FileState(SelectSeq(universe, LAMBDA id : id \in chosen), 0) :
           chosen \in SUBSET ToSet(universe) }
       \cup {FileAbsent, FileEmptyObject}

InitExtract ==
    /\ \E t \in TranscriptsUpTo(MaxLines) :
         /\ transcriptFile = [s \in Sessions |-> IF s = "sA" THEN t ELSE <<>>]
         /\ \E f \in StateFilesFor(t) :
              stateFile = [s \in Sessions |-> IF s = "sA" THEN f ELSE FileAbsent]
    /\ config \in ConfigPool
    /\ proc = [p \in Procs |-> IdleProc]
    /\ acked = <<>>
    /\ lastClear = [s \in Sessions |-> 0]
    /\ prev = IdleProc
    /\ invocations = 0
    /\ policyChanged = FALSE

\* extractNewMessages, markMessagesSynced, and extractNewMessages again.
NextExtract ==
    \/ invocations < 2 /\ Start(1, "sA", "Stop")
    \/ ParseStep(1)
    \/ SyncSessionOk(1)
    \/ ExtractStep(1)
    \/ SyncBatchOk(1)
    \/ MarkLoad(1)
    \/ SaveOpen(1)
    \/ SaveWrite(1)

SpecExtract == InitExtract /\ [][NextExtract]_vars

\* The decoder applied to every file of lines: titles given twice, lines
\* that are no JSON, message lines without message property, and tool_use
\* blocks in messages of either role.
DecodePool(lines) ==
    { SessionStartLine("Fix bug"), SessionStartLine("Renamed"), MalformedLine,
      BodilessMessageLine(MessageId(NumMessages(lines) + 1)),
      MessageLine(MessageId(NumMessages(lines) + 1), "user",
                  << TextBlock(<<"run">>), ToolUseBlock("t1", "Bash", <<"ls">>) >>) }
    \cup { MessageLine(MessageId(NumMessages(lines) + 1), s.role, s.content) :
             s \in MessageShapes }

RECURSIVE DecodeTranscripts(_)
DecodeTranscripts(n) ==
    IF n = 0 THEN { <<>> }
    ELSE LET shorter == DecodeTranscripts(n - 1)
         IN shorter \cup UNION { { Append(t, line) : line \in DecodePool(t) } :
                                   t \in { u \in shorter : Len(u) = n - 1 } }

InitDecode ==
    /\ \E t \in DecodeTranscripts(MaxLines) :
         transcriptFile = [s \in Sessions |-> IF s = "sA" THEN t ELSE <<>>]
    /\ stateFile = [s \in Sessions |-> FileAbsent]
    /\ config \in ConfigPool
    /\ proc = [p \in Procs |-> IdleProc]
    /\ acked = <<>>
    /\ lastClear = [s \in Sessions |-> 0]
    /\ prev = IdleProc
    /\ invocations = 0
    /\ policyChanged = FALSE

SpecDecode == InitDecode /\ [][NextExtract]_vars

\* Hooks of two sessions whose processes run at the same time, each
\* session with its own transcript; the message ids of the two coincide.
StartFor(p, s, event) ==
    /\ Dispatch(p, s, event, "ok")
    /\ UNCHANGED prev

InitSessions ==
    /\ transcriptFile \in [Sessions -> HookTranscripts \ { <<>> }]
    /\ stateFile = [s \in Sessions |-> FileAbsent]
    /\ config \in ConfigPool
    /\ proc = [p \in Procs |-> IdleProc]
    /\ acked = <<>>
    /\ lastClear = [s \in Sessions |-> 0]
    /\ prev = IdleProc
    /\ invocations = 0
    /\ policyChanged = FALSE

NextSessions ==
    \/ \E event \in {"Stop", "SessionEnd"} : StartFor(1, "sA", event)
    \/ \E event \in {"Stop", "SessionEnd"} : StartFor(2, "sB", event)
    \/ \E p \in Procs : HandlerStep(p)

SpecSessions == InitSessions /\ [][NextSessions]_vars

\* ------------------------------------------------- real-time handlers
\* The dispatcher that also routes the events of the running session to
\* handlers that send one record at once.
RealtimeHandlers == {"handleSessionStart", "handleUserPromptSubmit", "handlePostToolUse"}

\* The switch (normalizedEvent) with the three real-time cases.
HandlerForRealtime(normalizedEvent) ==
    CASE normalizedEvent = "sessionstart" -> "handleSessionStart"
      [] normalizedEvent = "userpromptsubmit" -> "handleUserPromptSubmit"
      [] normalizedEvent = "posttooluse" -> "handlePostToolUse"
      [] normalizedEvent = "stop" -> "handleStop"
      [] normalizedEvent = "sessionend" -> "handleSessionEnd"
      [] OTHER -> "none"

\* The payloads with tool_name and tool_input: without tool_response
\* ("tool"), with a string response, with a structured one.
ToolPayloads ==
    {"tool", "toolString", "toolStringAtLimit", "toolStringLong",
     "toolStructured", "toolStructuredLong"}

\* The payloads of the real-time events: the common fields only ("ok"),
\* these with a prompt ("prompt"), these with a tool, the JSON value null
\* ("null").
RealtimePayloads == {"ok", "prompt", "null"} \cup ToolPayloads

RealtimeEvents ==
    {"SessionStart", "session-start", "sessionstart", "UserPromptSubmit",
     "user-prompt-submit", "PostToolUse", "post-tool-use", "Stop", "SessionEnd",
     "PreToolUse", "session_start"}

\* The event names registerHooks puts into the commands of the host
\* tool's settings, each with the handler of its event.
RegisteredHooks ==
    { <<"SessionStart", "handleSessionStart">>,
      <<"UserPromptSubmit", "handleUserPromptSubmit">>,
      <<"PostToolUse", "handlePostToolUse">>,
      <<"Stop", "handleStop">>,
      <<"SessionEnd", "handleSessionEnd">> }

\* The prompt and the tool input a payload carries.
PromptOf(inputJson) == IF inputJson = "prompt" THEN <<"deploy", SecretToken>> ELSE <<>>

ToolInputOf(inputJson) ==
    IF inputJson \in ToolPayloads THEN <<"curl", SecretToken>> ELSE <<>>

\* input.tool_response: nothing, a string of `length` characters, or a
\* value whose JSON.stringify has `length` characters.
ToolResponseOf(inputJson) ==
    CASE inputJson = "toolString" -> [kind |-> "string", length |-> 12]
      [] inputJson = "toolStringAtLimit" -> [kind |-> "string", length |-> 1000]
      [] inputJson = "toolStringLong" -> [kind |-> "string", length |-> 1001]
      [] inputJson = "toolStructured" -> [kind |-> "structured", length |-> 999]
      [] inputJson = "toolStructuredLong" -> [kind |-> "structured", length |-> 250000]
      [] OTHER -> [kind |-> "absent", length |-> 0]

\* The length of text.slice(0, end) for a text of `length` characters.
SliceLength(length, end) == IF length > end THEN end ELSE length

\* Mutant: a structured response is serialized and sent whole.
ToolResultOf_StructuredUncut(response) ==
    CASE response.kind = "string" ->
            [defined |-> TRUE, length |-> SliceLength(response.length, 1000)]
      [] response.kind = "structured" ->
            [defined |-> TRUE, length |-> response.length]
      [] OTHER -> [defined |-> FALSE, length |-> 0]

\* handlePostToolUse's toolResult: the first 1000 characters of the string
\* or of its JSON serialization, undefined without a response.
ToolResultOf(response) ==
    CASE response.kind = "string" ->
            [defined |-> TRUE, length |-> SliceLength(response.length, 1000)]
      [] response.kind = "structured" ->
            [defined |-> TRUE, length |-> SliceLength(response.length, 1000)]
      [] OTHER -> [defined |-> FALSE, length |-> 0]

\* handleSessionStart up to client.syncSession: no client or autoSync unset
\* returns, input.cwd of null throws.
HandleSessionStartEntry(cfg, inputJson) ==
    IF ~cfg.present \/ ~cfg.autoSync THEN Route("exit", "handleSessionStart", "startDisabled", 0)
    ELSE IF inputJson = "null" THEN Route("exit", "handleSessionStart", "handlerThrew", 0)
    ELSE Route("sendSession", "handleSessionStart", "running", 0)

\* handleUserPromptSubmit up to client.syncMessage: returns without a prompt.
HandleUserPromptSubmitEntry(cfg, inputJson) ==
    IF ~cfg.present \/ ~cfg.autoSync
       THEN Route("exit", "handleUserPromptSubmit", "promptDisabled", 0)
    ELSE IF inputJson = "null" THEN Route("exit", "handleUserPromptSubmit", "handlerThrew", 0)
    ELSE IF PromptOf(inputJson) = <<>> THEN Route("exit", "handleUserPromptSubmit", "noPrompt", 0)
    ELSE Route("sendMessage", "handleUserPromptSubmit", "running", 0)

\* handlePostToolUse up to client.syncMessage: returns when tool calls are
\* not synced or the payload names no tool.
HandlePostToolUseEntry(cfg, inputJson) ==
    IF ~cfg.present \/ ~cfg.autoSync \/ ~cfg.syncToolCalls
       THEN Route("exit", "handlePostToolUse", "toolDisabled", 0)
    ELSE IF inputJson = "null" THEN Route("exit", "handlePostToolUse", "handlerThrew", 0)
    ELSE IF inputJson \notin ToolPayloads
       THEN Route("exit", "handlePostToolUse", "noToolName", 0)
    ELSE Route("sendMessage", "handlePostToolUse", "running", 0)

\* dispatchHook with the real-time cases; the payloads here are JSON.
DispatchHookRealtime(cfg, eventName, inputJson) ==
    IF ~cfg.present \/ ~cfg.autoSync THEN Route("exit", "none", "disabled", 0)
    ELSE LET handler == HandlerForRealtime(NormalizeEvent(eventName))
         IN CASE handler = "handleSessionStart" -> HandleSessionStartEntry(cfg, inputJson)
              [] handler = "handleUserPromptSubmit" -> HandleUserPromptSubmitEntry(cfg, inputJson)
              [] handler = "handlePostToolUse" -> HandlePostToolUseEntry(cfg, inputJson)
              [] handler = "handleStop" -> HandleStopEntry(cfg, inputJson)
              [] handler = "handleSessionEnd" -> HandleSessionEndEntry(cfg, inputJson)
              [] OTHER -> Route("exit", "none", "ignored", 0)

\* The one record a real-time handler hands to client.syncMessage; its id
\* is built from the session id and the clock.
ImmediateRecord(q, clock) ==
    IF q.handler = "handleUserPromptSubmit"
       THEN [sessionId |-> q.session,
             messageId |-> q.session \o "-user-" \o ToString(clock),
             role |-> "user", content |-> RedactSensitive(PromptOf(q.payload)),
             toolName |-> "", toolArgs |-> <<>>,
             toolResult |-> [defined |-> FALSE, length |-> 0]]
       ELSE [sessionId |-> q.session,
             messageId |-> q.session \o "-tool-" \o ToString(clock),
             role |-> "assistant", content |-> <<>>,
             toolName |-> "Bash", toolArgs |-> ToolInputOf(q.payload),
             toolResult |-> ToolResultOf(ToolResponseOf(q.payload))]

\* A hook of the running session fired after the previous hook process
\* has exited.
StartRealtime(p, s, event, payload) ==
    /\ AllIdle
    /\ invocations < MaxInvocations
    /\ invocations' = invocations + 1
    /\ LET r == DispatchHookRealtime(config, event, payload)
       IN proc' = [proc EXCEPT ![p] =
                     [IdleProc EXCEPT
                        !.pc = r.pc, !.handler = r.handler, !.outcome = r.outcome,
                        !.exitCode = r.exitCode,
                        !.event = event, !.payload = payload, !.session = s,
                        !.enabled = config.present /\ config.autoSync,
                        !.syncToolCalls = config.syncToolCalls,
                        !.syncThinking = config.syncThinking,
                        !.fileAtStart = stateFile[GetSyncStateFile(s)]]]
    /\ UNCHANGED << transcriptFile, stateFile, config, acked, prev, policyChanged, lastClear >>

\* handleSessionStart: await client.syncSession(session) answered 2xx
SendSessionOk(p) ==
    /\ proc[p].pc = "sendSession"
    /\ proc' = [proc EXCEPT ![p] = Did(Exit(p, "sent"), "syncSession")]
    /\ UNCHANGED << transcriptFile, stateFile, config, acked, prev, invocations, policyChanged, lastClear >>

\* handleSessionStart: await client.syncSession(session) rejected
SendSessionFail(p) ==
    /\ proc[p].pc = "sendSession"
    /\ proc' = [proc EXCEPT ![p] = Did(Exit(p, "sessionFailed"), "syncSession")]
    /\ UNCHANGED << transcriptFile, stateFile, config, acked, prev, invocations, policyChanged, lastClear >>

\* Mutant: the id of the record sent is also added to the synced set.
SendMessageOk_MarksSynced(p) ==
    /\ proc[p].pc = "sendMessage"
    /\ LET record == ImmediateRecord(proc[p], invocations)
           file == stateFile[GetSyncStateFile(proc[p].session)]
       IN /\ proc' = [proc EXCEPT ![p] =
                        [Did(Exit(p, "sent"), "syncMessage") EXCEPT
                           !.newMessages = << record >>]]
          /\ acked' = Append(acked, [session |-> proc[p].session,
                                     ids |-> << record.messageId >>])
          /\ stateFile' = [stateFile EXCEPT ![GetSyncStateFile(proc[p].session)] =
                             FileState(MarkMessagesSynced(file, << record.messageId >>),
                                       invocations)]
    /\ UNCHANGED << transcriptFile, config, prev, invocations, policyChanged, lastClear >>

\* handleUserPromptSubmit, handlePostToolUse: await client.syncMessage(...)
\* answered 2xx
SendMessageOk(p) ==
    /\ proc[p].pc = "sendMessage"
    /\ LET record == ImmediateRecord(proc[p], invocations)
       IN /\ proc' = [proc EXCEPT ![p] =
                        [Did(Exit(p, "sent"), "syncMessage") EXCEPT
                           !.newMessages = << record >>]]
          /\ acked' = Append(acked, [session |-> proc[p].session,
                                     ids |-> << record.messageId >>])
    /\ UNCHANGED << transcriptFile, stateFile, config, prev, invocations, policyChanged, lastClear >>

\* handleUserPromptSubmit, handlePostToolUse: await client.syncMessage(...)
\* rejected
SendMessageFail(p) ==
    /\ proc[p].pc = "sendMessage"
    /\ proc' = [proc EXCEPT ![p] = Did(Exit(p, "messageFailed"), "syncMessage")]
    /\ UNCHANGED << transcriptFile, stateFile, config, acked, prev, invocations, policyChanged, lastClear >>

\* The hooks of one session from its start to its end, with the Stop and
\* SessionEnd handlers running between the real-time ones.
InitRealtime ==
    /\ transcriptFile \in [Sessions -> HookTranscripts \ { <<>> }]
    /\ stateFile = [s \in Sessions |-> FileAbsent]
    /\ config \in ConfigPool
    /\ proc = [p \in Procs |-> IdleProc]
    /\ acked = <<>>
    /\ lastClear = [s \in Sessions |-> 0]
    /\ prev = IdleProc
    /\ invocations = 0
    /\ policyChanged = FALSE

NextRealtime ==
    \/ AllIdle /\ \E c \in ConfigPool : SetConfig(c)
    \/ \E event \in RealtimeEvents, payload \in RealtimePayloads :
         StartRealtime(1, "sA", event, payload)
    \/ SendSessionOk(1)
    \/ SendSessionFail(1)
    \/ SendMessageOk(1)
    \/ SendMessageFail(1)
    \/ HandlerStep(1)

SpecRealtime == InitRealtime /\ [][NextRealtime]_vars

\* ------------------------------------------------ transport answers
\* await client.syncSession(...) with the answer the backend gives
SyncSessionAnswer(p, r) ==
    /\ proc[p].pc = "syncSession"
    /\ LET res == Request(r)
           target == IF res.threw THEN Exit(p, "sessionFailed")
                     ELSE [proc[p] EXCEPT !.pc = "extract"]
       IN proc' = [proc EXCEPT ![p] =
                     [Did(target, "syncSession") EXCEPT
                        !.response = r, !.error = res.message]]
    /\ UNCHANGED << transcriptFile, stateFile, config, acked, prev, invocations, policyChanged, lastClear >>

\* await client.syncBatch([], newMessages) with the answer the backend gives
SyncBatchAnswer(p, r) ==
    /\ proc[p].pc = "syncBatch"
    /\ LET res == Request(r)
           target == IF res.threw THEN Exit(p, "batchFailed")
                     ELSE [proc[p] EXCEPT !.pc = "markLoad"]
       IN /\ proc' = [proc EXCEPT ![p] =
                        [Did(target, "syncBatch") EXCEPT
                           !.response = r, !.error = res.message,
                           !.batchResult = IF res.threw THEN "failed" ELSE "ok"]]
          /\ acked' = IF res.threw THEN acked
                      ELSE Append(acked, [session |-> proc[p].session,
                                          ids |-> RecordIds(proc[p].newMessages)])
    /\ UNCHANGED << transcriptFile, stateFile, config, prev, invocations, policyChanged, lastClear >>

\* Stop hooks of one session against a backend that answers every POST
\* with any status and body, or not at all.
NextTransport ==
    \/ AllIdle /\ \E c \in ConfigPool : SetConfig(c)
    \/ StartHook(1, "sA", "Stop", "ok")
    \/ ParseStep(1)
    \/ \E r \in Responses : SyncSessionAnswer(1, r)
    \/ ExtractStep(1)
    \/ \E r \in Responses : SyncBatchAnswer(1, r)
    \/ MarkLoad(1)
    \/ SaveOpen(1)
    \/ SaveWrite(1)

SpecTransport == InitSessions /\ [][NextTransport]_vars

\* Stop and SessionEnd processes of one session whose steps interleave
\* freely, the host tool writing the transcript between hooks.
NextEnds ==
    \/ AllIdle /\ AppendLine("sA")
    \/ \E p \in Procs, event \in {"Stop", "SessionEnd"} : StartConcurrent(p, "sA", event)
    \/ \E p \in Procs : HandlerStep(p)

SpecEnds == Init /\ [][NextEnds]_vars

\* Extraction under every setting of syncToolCalls and syncThinking.
PolicyPool ==
    { [present |-> TRUE, autoSync |-> TRUE, syncToolCalls |-> tools, syncThinking |-> thinking] :
        tools \in BOOLEAN, thinking \in BOOLEAN }

InitThinking ==
    /\ \E t \in TranscriptsUpTo(MaxLines) :
         /\ transcriptFile = [s \in Sessions |-> IF s = "sA" THEN t ELSE <<>>]
         /\ \E f \in StateFilesFor(t) :
              stateFile = [s \in Sessions |-> IF s = "sA" THEN f ELSE FileAbsent]
    /\ config \in PolicyPool
    /\ proc = [p \in Procs |-> IdleProc]
    /\ acked = <<>>
    /\ lastClear = [s \in Sessions |-> 0]
    /\ prev = IdleProc
    /\ invocations = 0
    /\ policyChanged = FALSE

SpecThinking == InitThinking /\ [][NextExtract]_vars

\* ------------------------------------------------ login and logout
\* The credentials file ~/.opensync/droid-credentials.json: absent, the
\* JSON setConfig wrote, the "{}" clearConfig wrote, or bytes that are no
\* JSON.
ConfigFileAbsent == [kind |-> "absent", config |-> NoConfig]

ConfigFileCleared == [kind |-> "emptyObject", config |-> NoConfig]

ConfigFileInvalid == [kind |-> "invalid", config |-> NoConfig]

ConfigFileWith(c) == [kind |-> "credentials", config |-> c]

ConfigFiles ==
    {ConfigFileAbsent, ConfigFileCleared, ConfigFileInvalid}
    \cup { ConfigFileWith(c) : c \in ConfigPool \cup {AutoSyncOff} }

\* DROID_SYNC_CONVEX_URL and DROID_SYNC_API_KEY: both set, with the
\* settings the other variables give, or not both set.
EnvUnset == [set |-> FALSE, config |-> NoConfig]

EnvWith(c) == [set |-> TRUE, config |-> c]

\* getConfig: the environment first, then the file. normalizeUrl throws on
\* the undefined convexUrl of "{}", and the catch returns null.
GetConfig(env, file) ==
    IF env.set THEN env.config
    ELSE IF file.kind = "credentials" THEN file.config
    ELSE NoConfig

\* setConfig: the file holds the JSON of the configuration.
SetConfigFile(c) == ConfigFileWith(c)

\* Mutant: clearConfig leaves the file as it is.
ClearConfig_LeavesFile(file) == file

\* clearConfig: "{}" is written over an existing file.
ClearConfig(file) == IF file.kind = "absent" THEN file ELSE ConfigFileCleared

\* The record of a command of the CLI that is no hook.
CliRun(command) == [IdleProc EXCEPT !.event = command, !.pc = "exit"]

\* droid-sync login with no credentials in the environment: setConfig
\* writes the credentials file.
Login(c) ==
    /\ AllIdle
    /\ config' = GetConfig(EnvUnset, SetConfigFile(c))
    /\ prev' = CliRun("login")
    /\ proc' = [p \in Procs |-> IdleProc]
    /\ UNCHANGED << transcriptFile, stateFile, acked, invocations, policyChanged, lastClear >>

\* droid-sync logout, with no credentials in the environment: clearConfig
\* on whatever credentials file getConfig read the configuration from.
Logout ==
    /\ AllIdle
    /\ \E file \in ConfigFiles :
         /\ GetConfig(EnvUnset, file) = config
         /\ config' = GetConfig(EnvUnset, ClearConfig(file))
    /\ prev' = CliRun("logout")
    /\ proc' = [p \in Procs |-> IdleProc]
    /\ UNCHANGED << transcriptFile, stateFile, acked, invocations, policyChanged, lastClear >>

\* Hooks of one session with logins and logouts between them.
NextLogout ==
    \/ \E c \in ConfigPool : Login(c)
    \/ Logout
    \/ \E event \in EventNames, payload \in {"ok", "malformed"} :
         StartHook(1, "sA", event, payload)
    \/ HandlerStep(1)

SpecLogout == InitSessions /\ [][NextLogout]_vars

\* ------------------------------------------------------------- claims
IsPrefix(a, b) == Len(a) <= Len(b) /\ a = SubSeq(b, 1, Len(a))

\* C1: for every transcript T and synced set S, extractNewMessages emits
\* no record whose id is in S, every emitted id is in the returned
\* allMessageIds, and allMessageIds holds every id of S.
C1_EmitsOnlyNewAndReturnsSuperset ==
    \A p \in Procs :
        (proc[p].loaded /\ proc[p].outcome # "extractThrew") =>
            LET S == PersistedIds(proc[p].fileLoaded)
                emitted == ToSet(RecordIds(proc[p].newMessages))
                all == ToSet(proc[p].allMessageIds)
            IN /\ emitted \cap S = {}
               /\ emitted \subseteq all
               /\ S \subseteq all

\* An extraction that skipped a synced message, met a synced tool call of
\* an unsynced message, and still emitted records.
C1_Witness ==
    /\ proc[1].loaded
    /\ proc[1].newMessages # <<>>
    /\ \E i \in DOMAIN proc[1].transcript.messages :
         proc[1].transcript.messages[i].id \in PersistedIds(proc[1].fileLoaded)
    /\ \E i \in DOMAIN proc[1].transcript.messages :
         LET m == proc[1].transcript.messages[i]
         IN /\ m.id \notin PersistedIds(proc[1].fileLoaded)
            /\ ToolMessageId(m.id, "t1") \in PersistedIds(proc[1].fileLoaded)
            /\ \E j \in DOMAIN m.content : m.content[j].type = "tool_use"
            /\ proc[1].syncToolCalls

\* C5: extraction is idempotent: after extractNewMessages ran on T and its
\* allMessageIds were persisted by markMessagesSynced, extractNewMessages
\* on the same T with the same policy returns no new message.
C5_SecondExtractionIsEmpty ==
    \A p \in Procs :
        ( /\ proc[p].loaded
          /\ prev.outcome = "saved"
          /\ prev.lines = proc[p].lines
          /\ prev.syncToolCalls = proc[p].syncToolCalls
          /\ prev.syncThinking = proc[p].syncThinking
          /\ PersistedIds(proc[p].fileLoaded) = ToSet(prev.toSave) )
        => /\ proc[p].outcome = "nothingNew"
           /\ proc[p].newMessages = <<>>

\* A second extraction after a first one that emitted a text record and a
\* tool-call record on top of a non-empty synced set.
C5_Witness ==
    /\ proc[1].loaded
    /\ prev.outcome = "saved"
    /\ prev.lines = proc[1].lines
    /\ PersistedIds(prev.fileLoaded) # {}
    /\ \E i, j \in DOMAIN prev.newMessages :
         prev.newMessages[i].toolName = "" /\ prev.newMessages[j].toolName # ""
    /\ proc[1].newMessages = <<>>

\* The ids of the batches the backend acknowledged for a session.
AckedIds(s) ==
    UNION { ToSet(acked[i].ids) : i \in { j \in DOMAIN acked : acked[j].session = s } }

\* The logical records of a transcript under a policy: the id of every
\* message that has text, and the composite id of every tool_use block
\* when tool calls are included.
LogicalIds(lines, includeToolCalls) ==
    UNION { LET l == lines[i]
            IN IF l.type # "message" THEN {}
               ELSE (IF \E j \in DOMAIN l.content :
                           /\ l.content[j].type = "text"
                           /\ \E k \in DOMAIN l.content[j].text : l.content[j].text[k] # " "
                        THEN {l.id} ELSE {})
                    \cup { ToolMessageId(l.id, l.content[j].id) :
                             j \in { k \in DOMAIN l.content :
                                       /\ l.content[k].type = "tool_use"
                                       /\ includeToolCalls } }
          : i \in DOMAIN lines }

\* C2: over sequential Stop invocations of one session, each a fresh
\* process reloading the state file, on an append-only transcript, no
\* logical record id is contained in two acknowledged batches.
C2_AtMostOnceDelivery ==
    /\ \A i, j \in DOMAIN acked :
         (i # j /\ acked[i].session = acked[j].session)
         => ToSet(acked[i].ids) \cap ToSet(acked[j].ids) = {}
    /\ \A i \in DOMAIN acked :
         \A k, l \in DOMAIN acked[i].ids : k # l => acked[i].ids[k] # acked[i].ids[l]

\* Two acknowledged batches, the later one sent by a Stop that found the
\* records of the earlier one in the transcript and in the state file.
C2_Witness ==
    /\ Len(acked) = 2
    /\ proc[1].outcome = "saved"
    /\ ToSet(acked[1].ids) \subseteq PersistedIds(proc[1].fileLoaded)
    /\ ToSet(acked[1].ids) \subseteq LogicalIds(proc[1].lines, TRUE)

C4_FailedBatchLeavesStateAndIsRetried ==
    /\ \A p \in Procs :
         proc[p].batchResult = "failed"
         => stateFile[proc[p].session] = proc[p].fileAtStart
    /\ \A p \in Procs :
         ( /\ prev.batchResult = "failed"
           /\ proc[p].event = "Stop"
           /\ proc[p].session = prev.session
           /\ proc[p].syncToolCalls = prev.syncToolCalls
           /\ proc[p].loaded )
         => /\ proc[p].outcome # "extractThrew"
            /\ IsPrefix(prev.newMessages, proc[p].newMessages)
            /\ proc[p].lines = prev.lines => proc[p].newMessages = prev.newMessages

\* A Stop whose batch failed on top of a non-empty state file, followed by
\* a Stop that extracted the same records again.
C4_Witness ==
    /\ prev.batchResult = "failed"
    /\ PersistedIds(prev.fileAtStart) # {}
    /\ proc[1].event = "Stop"
    /\ proc[1].pc = "syncBatch"
    /\ proc[1].newMessages = prev.newMessages
    /\ stateFile["sA"] = prev.fileAtStart

\* C6: the store is monotonic per session. Every save writes a superset of
\* the ids the store held when markMessagesSynced loaded it, and an
\* invocation that is not a clear leaves every id it found persisted, so
\* the persisted set never shrinks across sequential saves and becomes
\* empty only through clearSyncState.
C6_StoreIsMonotonic ==
    \A p \in Procs :
        /\ proc[p].pc = "saveOpen"
           => PersistedIds(stateFile[proc[p].session]) \subseteq ToSet(proc[p].toSave)
        /\ (proc[p].pc = "exit" /\ proc[p].outcome # "cleared")
           => /\ PersistedIds(proc[p].fileAtStart)
                    \subseteq PersistedIds(stateFile[proc[p].session])
              /\ Cardinality(PersistedIds(proc[p].fileAtStart))
                    <= Cardinality(PersistedIds(stateFile[proc[p].session]))
        /\ ( /\ proc[p].pc = "exit"
             /\ PersistedIds(proc[p].fileAtStart) # {}
             /\ PersistedIds(stateFile[proc[p].session]) = {} )
           => proc[p].outcome = "cleared"

\* A save that grew a non-empty persisted set.
C6_Witness ==
    /\ proc[1].pc = "exit"
    /\ proc[1].outcome = "saved"
    /\ PersistedIds(proc[1].fileAtStart) # {}
    /\ PersistedIds(proc[1].fileAtStart) # PersistedIds(stateFile["sA"])
    /\ PersistedIds(proc[1].fileAtStart) \subseteq PersistedIds(stateFile["sA"])

\* C7: after clearSyncState ran on an existing state file, a following
\* Stop invocation loads an empty synced set, completes extraction without
\* an error, and treats every transcript record as new.
C7_StopAfterClearStartsFromEmpty ==
    \A p \in Procs :
        ( /\ proc[p].event = "Stop"
          /\ proc[p].loaded
          /\ prev.outcome = "cleared"
          /\ proc[p].session = prev.session )
        => /\ proc[p].outcome # "extractThrew"
           /\ proc[p].newMessages =
                  ExtractLoop(proc[p].session, proc[p].transcript.messages, {},
                              proc[p].syncToolCalls)

\* C8: loading the sync state never fails: when the state file is absent,
\* is not valid JSON, or is JSON of another shape, the load yields an
\* empty synced-id set and the invocation proceeds without an error.
C8_LoadNeverFails ==
    \A p \in Procs :
        (proc[p].loaded /\ proc[p].fileLoaded.kind # "state")
        => /\ proc[p].outcome # "extractThrew"
           /\ proc[p].allMessageIds = RecordIds(proc[p].newMessages)

\* C10: saving the sync state is crash-atomic: when a Stop process is
\* killed, the state file holds the complete previous state or the
\* complete new state, never an empty or partially written file.
C10_SaveIsCrashAtomic ==
    \A p \in Procs :
        (proc[p].event = "Stop" /\ proc[p].outcome = "killed")
        => \/ stateFile[proc[p].session] = proc[p].fileAtStart
           \/ /\ stateFile[proc[p].session].kind = "state"
              /\ stateFile[proc[p].session].ids = proc[p].toSave

IsSessionEnd(q) == NormalizeEvent(q.event) = "sessionend"

\* C11: an error raised inside a handler (a transport failure of the
\* session upsert or of the batch, a TypeError in extraction or on a null
\* payload) is caught by dispatchHook: the process has exited, with
\* status 0.
C11_HandlerErrorExitsZero ==
    \A p \in Procs :
        proc[p].outcome \in HandlerErrors
        => /\ proc[p].pc = "exit"
           /\ proc[p].handler # "none"
           /\ proc[p].exitCode = 0

\* A Stop whose extraction threw a TypeError on the cleared state file,
\* after its session upsert had been sent, and exited with status 0.
C11_Witness ==
    /\ proc[1].outcome = "extractThrew"
    /\ proc[1].steps = <<"parseTranscript", "syncSession", "extractNewMessages">>
    /\ proc[1].exitCode = 0

\* C12 as stated: for every hook invocation, whatever the configuration, a
\* payload that fails JSON decoding exits non-zero without a handler, and
\* an empty payload exits with status 0 without a handler.
C12_PayloadDecidesExitUnderAnyConfig ==
    \A p \in Procs :
        (proc[p].pc # "idle" /\ proc[p].event # "")
        => /\ proc[p].payload = "malformed"
              => /\ proc[p].pc = "exit"
                 /\ proc[p].handler = "none"
                 /\ proc[p].exitCode # 0
           /\ proc[p].payload = "empty"
              => /\ proc[p].pc = "exit"
                 /\ proc[p].handler = "none"
                 /\ proc[p].exitCode = 0

\* C12 amended: for every hook invocation under a configuration that is
\* found and has autoSync on, a payload that fails JSON decoding exits
\* non-zero without a handler; when no configuration is found or autoSync
\* is false the payload is never read and the same payload exits with
\* status 0 without a handler; an empty payload exits with status 0
\* without a handler whatever the configuration is.
C12_PayloadDecidesExitWhenEnabled ==
    \A p \in Procs :
        (proc[p].pc # "idle" /\ proc[p].event # "")
        => /\ proc[p].payload = "malformed"
              => /\ proc[p].pc = "exit"
                 /\ proc[p].handler = "none"
                 /\ proc[p].steps = <<>>
                 /\ proc[p].exitCode # 0 <=> proc[p].enabled
           /\ proc[p].payload = "empty"
              => /\ proc[p].pc = "exit"
                 /\ proc[p].handler = "none"
                 /\ proc[p].steps = <<>>
                 /\ proc[p].exitCode = 0

\* A Stop hook with a malformed payload under an enabled configuration
\* exited with status 1 and left the state file of its session, which
\* holds ids, alone.
C12_Witness ==
    /\ proc[1].pc = "exit"
    /\ proc[1].event = "Stop"
    /\ proc[1].payload = "malformed"
    /\ proc[1].enabled
    /\ proc[1].exitCode = 1
    /\ PersistedIds(stateFile[proc[1].session]) # {}

C14_DisabledIsNoOp ==
    \A p \in Procs :
        (proc[p].pc # "idle" /\ proc[p].event # "" /\ ~proc[p].enabled)
        => /\ proc[p].pc = "exit"
           /\ proc[p].exitCode = 0
           /\ proc[p].handler = "none"
           /\ proc[p].steps = <<>>
           /\ stateFile[proc[p].session] = proc[p].fileAtStart

\* A SessionEnd hook with a decodable payload fired with syncing disabled
\* for a session whose state file holds ids, and the ids are still there.
C14_Witness ==
    /\ proc[1].pc = "exit"
    /\ IsSessionEnd(proc[1])
    /\ proc[1].payload = "ok"
    /\ ~proc[1].enabled
    /\ PersistedIds(stateFile[proc[1].session]) # {}

StopOrder ==
    << "parseTranscript", "syncSession", "extractNewMessages", "syncBatch",
       "markMessagesSynced", "saveSyncState" >>

\* C17: the calls a Stop invocation has made are a prefix of: decode the
\* transcript, send the session upsert, extract the delta, transmit the
\* batch, persist the synced set. The synced set is persisted only after
\* the batch was acknowledged, and until then the state file is what it
\* was when the invocation started: no state write precedes a transport
\* call.
C17_StopStepsInOrder ==
    \A p \in Procs :
        proc[p].handler = "handleStop"
        => /\ IsPrefix(proc[p].steps, StopOrder)
           /\ "markMessagesSynced" \in ToSet(proc[p].steps)
              => /\ proc[p].batchResult = "ok"
                 /\ ToSet(RecordIds(proc[p].newMessages)) \subseteq AckedIds(proc[p].session)
           /\ "saveSyncState" \notin ToSet(proc[p].steps)
              => stateFile[proc[p].session] = proc[p].fileAtStart

\* A Stop went through all its calls and saved, on top of a state file
\* that already held ids.
C17_Witness ==
    /\ proc[1].handler = "handleStop"
    /\ proc[1].outcome = "saved"
    /\ proc[1].steps = StopOrder
    /\ PersistedIds(proc[1].fileAtStart) # {}

\* An extraction by process p returned.
Extracted(p) == proc[p].loaded /\ proc[p].outcome # "extractThrew"

\* The composite ids of the tool_use blocks of a message.
CompositeIds(m) ==
    { ToolMessageId(m.id, m.content[j].id) :
        j \in { k \in DOMAIN m.content : m.content[k].type = "tool_use" } }

\* C18: for every message of role user whose id is not in the synced set,
\* extractNewMessages emits one record with the message id and the role
\* user, also when its concatenated text is empty; for a message of role
\* assistant whose id is not in the synced set the text record is emitted
\* exactly when the concatenated text is not empty.
C18_UserMessageAlwaysRecorded ==
    \A p \in Procs :
        Extracted(p) =>
            \A i \in DOMAIN proc[p].transcript.messages :
                LET m == proc[p].transcript.messages[i]
                    textRecords ==
                        { j \in DOMAIN proc[p].newMessages :
                            /\ proc[p].newMessages[j].messageId = m.id
                            /\ proc[p].newMessages[j].role = m.role }
                IN m.id \notin PersistedIds(proc[p].fileLoaded)
                   => IF m.role = "user"
                         THEN Cardinality(textRecords) = 1
                         ELSE Cardinality(textRecords)
                                = IF TrimIsNonEmpty(ConcatText(m.content)) THEN 1 ELSE 0

\* C19: when tool calls are included, every tool_use block whose composite
\* id is not in the synced set yields a record with that id, whether or
\* not the id of its message is in the synced set.
C19_ToolCallsCheckedIndependently ==
    \A p \in Procs :
        (Extracted(p) /\ proc[p].syncToolCalls) =>
            \A i \in DOMAIN proc[p].transcript.messages :
                \A id \in CompositeIds(proc[p].transcript.messages[i]) :
                    id \notin PersistedIds(proc[p].fileLoaded)
                    => id \in ToSet(RecordIds(proc[p].newMessages))

\* C20: when syncToolCalls is false, extractNewMessages emits no record
\* for a tool_use block (none carries a tool name or a composite id) and
\* the ids it returns beyond the loaded ones hold no composite id.
C20_NoToolRecordsWhenExcluded ==
    \A p \in Procs :
        (Extracted(p) /\ ~proc[p].syncToolCalls) =>
            LET composite ==
                    UNION { CompositeIds(proc[p].transcript.messages[i]) :
                              i \in DOMAIN proc[p].transcript.messages }
                loadedIds == LoadSyncState(proc[p].fileLoaded).ids
                added == SubSeq(proc[p].allMessageIds, Len(loadedIds) + 1,
                                Len(proc[p].allMessageIds))
            IN /\ \A j \in DOMAIN proc[p].newMessages :
                    /\ proc[p].newMessages[j].toolName = ""
                    /\ proc[p].newMessages[j].messageId \notin composite
               /\ ToSet(added) \cap composite = {}
               /\ IsPrefix(loadedIds, proc[p].allMessageIds)

\* An extraction without tool calls emitted the text record of an unsynced
\* message that has two tool_use blocks, none of them in the synced set.
C20_Witness ==
    /\ Extracted(1)
    /\ ~proc[1].syncToolCalls
    /\ proc[1].newMessages # <<>>
    /\ \E i \in DOMAIN proc[1].transcript.messages :
         LET m == proc[1].transcript.messages[i]
         IN /\ m.id \in ToSet(RecordIds(proc[1].newMessages))
            /\ Cardinality(CompositeIds(m)) = 2
            /\ CompositeIds(m) \cap PersistedIds(proc[1].fileLoaded) = {}

\* The messages of a decoded transcript that have text other than blanks.
TextMessages(messages) ==
    { i \in DOMAIN messages : TrimIsNonEmpty(ConcatText(messages[i].content)) }

\* The tool_use blocks of a decoded transcript, as (message, block) places.
ToolBlocks(messages) ==
    { ij \in UNION { { <<i, j>> : j \in DOMAIN messages[i].content } : i \in DOMAIN messages } :
        messages[ij[1]].content[ij[2]].type = "tool_use" }

\* C21: starting from an empty synced set with tool calls included, the
\* number of records extractNewMessages returns is the number of messages
\* that yield a text record plus the number of tool_use blocks, and the
\* returned ids are that many, all different.
C21_RecordCountFromEmptySet ==
    \A p \in Procs :
        ( /\ Extracted(p)
          /\ proc[p].syncToolCalls
          /\ proc[p].fileLoaded.kind \in {"absent", "state"}
          /\ proc[p].fileLoaded.ids = <<>> )
        => LET n == Cardinality(TextMessages(proc[p].transcript.messages))
                      + Cardinality(ToolBlocks(proc[p].transcript.messages))
           IN /\ Len(proc[p].newMessages) = n
              /\ Len(proc[p].allMessageIds) = n
              /\ Cardinality(ToSet(proc[p].allMessageIds)) = n

\* The scenario of the spec: a prompt and an answer with one tool call,
\* from an empty synced set, give 3 records (2 text, 1 tool) and 3 ids.
C21_Witness ==
    /\ Extracted(1)
    /\ proc[1].syncToolCalls
    /\ proc[1].fileLoaded.kind \in {"absent", "state"}
    /\ proc[1].fileLoaded.ids = <<>>
    /\ Cardinality(TextMessages(proc[1].transcript.messages)) = 2
    /\ Cardinality(ToolBlocks(proc[1].transcript.messages)) = 1
    /\ Len(proc[1].newMessages) = 3
    /\ Len(proc[1].allMessageIds) = 3

\* Where a record comes from: the place of its message in the transcript
\* and of its block in the message (0 for the text record).
SourceMessage(messages, r) ==
    CHOOSE i \in DOMAIN messages :
        IF r.toolName = "" THEN messages[i].id = r.messageId
        ELSE r.messageId \in CompositeIds(messages[i])

SourceBlock(messages, r) ==
    IF r.toolName = "" THEN 0
    ELSE LET m == messages[SourceMessage(messages, r)]
         IN CHOOSE j \in DOMAIN m.content :
                /\ m.content[j].type = "tool_use"
                /\ ToolMessageId(m.id, m.content[j].id) = r.messageId

\* C22: the records extractNewMessages returns are in transcript order:
\* those of an earlier message before those of a later one, within one
\* message the text record first and then the tool calls in the order of
\* their blocks; no record appears twice.
C22_RecordsInTranscriptOrder ==
    \A p \in Procs :
        Extracted(p) =>
            LET ms == proc[p].transcript.messages
                rs == proc[p].newMessages
            IN \A a, b \in DOMAIN rs :
                   a < b =>
                       \/ SourceMessage(ms, rs[a]) < SourceMessage(ms, rs[b])
                       \/ /\ SourceMessage(ms, rs[a]) = SourceMessage(ms, rs[b])
                          /\ SourceBlock(ms, rs[a]) < SourceBlock(ms, rs[b])

\* An extraction returned the text record of one message and then, of a
\* later message, the text record and two tool calls.
C22_Witness ==
    /\ Extracted(1)
    /\ Len(proc[1].newMessages) = 4
    /\ proc[1].newMessages[1].messageId = MessageId(1)
    /\ proc[1].newMessages[2].messageId = MessageId(2)
    /\ proc[1].newMessages[3].messageId = ToolMessageId(MessageId(2), "t1")
    /\ proc[1].newMessages[4].messageId = ToolMessageId(MessageId(2), "t2")

\* C27: no secret reaches the transport verbatim: in every record handed
\* to syncBatch neither the message text nor the tool-call arguments hold
\* a token of a secret shape.
C27_NoSecretReachesTransport ==
    \A p \in Procs :
        proc[p].pc = "syncBatch" =>
            \A j \in DOMAIN proc[p].newMessages :
                /\ SecretToken \notin ToSet(proc[p].newMessages[j].content)
                /\ SecretToken \notin ToSet(proc[p].newMessages[j].toolArgs)

\* The tokens of the thinking blocks of a decoded transcript.
ThinkingTokens(messages) ==
    UNION { UNION { IF messages[i].content[j].type = "thinking"
                       THEN ToSet(messages[i].content[j].text) ELSE {} :
                    j \in DOMAIN messages[i].content } :
            i \in DOMAIN messages }

\* C28: with syncThinking false no record carries content of a thinking
\* block, and every id extractNewMessages adds is the id of a message or
\* the composite id of a tool_use block: thinking blocks get no id.
C28_ThinkingNeverEmitted ==
    \A p \in Procs :
        (Extracted(p) /\ ~proc[p].syncThinking) =>
            LET ms == proc[p].transcript.messages
                loadedIds == LoadSyncState(proc[p].fileLoaded).ids
                added == SubSeq(proc[p].allMessageIds, Len(loadedIds) + 1,
                                Len(proc[p].allMessageIds))
            IN /\ \A j \in DOMAIN proc[p].newMessages :
                    /\ ToSet(proc[p].newMessages[j].content) \cap ThinkingTokens(ms) = {}
                    /\ ToSet(proc[p].newMessages[j].toolArgs) \cap ThinkingTokens(ms) = {}
               /\ ToSet(added) \subseteq
                    { ms[i].id : i \in DOMAIN ms } \cup UNION { CompositeIds(ms[i]) : i \in DOMAIN ms }
               /\ Len(added) = Len(proc[p].newMessages)

\* An extraction emitted the text record of a message that holds a
\* thinking block before its text.
C28_Witness ==
    /\ Extracted(1)
    /\ ~proc[1].syncThinking
    /\ \E i \in DOMAIN proc[1].transcript.messages :
         LET m == proc[1].transcript.messages[i]
         IN /\ m.content # <<>>
            /\ m.content[1].type = "thinking"
            /\ \E j \in DOMAIN proc[1].newMessages :
                 /\ proc[1].newMessages[j].messageId = m.id
                 /\ proc[1].newMessages[j].content = <<"a", "b">>

\* A Stop process has decoded its transcript.
Decoded(p) == proc[p].handler = "handleStop" /\ "parseTranscript" \in ToSet(proc[p].steps)

\* The lines that decode structurally: JSON of type message with its
\* message property.
ValidMessageLines(lines) ==
    SelectSeq(lines, LAMBDA l : l.type = "message" /\ l.role # "")

\* C23: a line that fails structural decoding (no JSON, or JSON without
\* the fields of its record type) is skipped entirely: the decoded
\* messages are the valid message lines, in order, the message count is
\* their number, and the extraction that follows does not fail.
C23_MalformedLinesContributeNothing ==
    \A p \in Procs :
        Decoded(p) =>
            /\ proc[p].transcript.messages = ValidMessageLines(proc[p].lines)
            /\ proc[p].transcript.messageCount = Len(ValidMessageLines(proc[p].lines))
            /\ proc[p].outcome # "extractThrew"

\* C24: when the transcript file does not exist, parseTranscript returns
\* the empty transcript without an error, extractNewMessages returns no
\* new record without an error, and the Stop sends no batch and leaves the
\* state file as it was.
C24_MissingTranscriptIsEmpty ==
    \A p \in Procs :
        (Decoded(p) /\ proc[p].payload = "missingFile")
        => /\ proc[p].transcript = EmptyTranscript
           /\ proc[p].outcome \notin {"handlerThrew", "extractThrew"}
           /\ proc[p].loaded => proc[p].outcome = "nothingNew" /\ proc[p].newMessages = <<>>
           /\ "syncBatch" \notin ToSet(proc[p].steps)
           /\ stateFile[proc[p].session] = proc[p].fileAtStart

\* The session_start lines of a file.
SessionStarts(lines) == SelectSeq(lines, LAMBDA l : l.type = "session_start")

\* C25: when a transcript holds more than one session_start record, the
\* decoded sessionStart is the first of them.
C25_FirstSessionStartRetained ==
    \A p \in Procs :
        Decoded(p) =>
            proc[p].transcript.sessionStart =
                IF SessionStarts(proc[p].lines) = <<>> THEN <<>>
                ELSE << Head(SessionStarts(proc[p].lines)) >>

\* C26: the decoded messageCount is the number of decoded messages, and
\* toolCallCount is the number of tool_use blocks over all of them,
\* whatever the role of the message.
C26_CountsMatchDecodedMessages ==
    \A p \in Procs :
        Decoded(p) =>
            /\ proc[p].transcript.messageCount = Len(proc[p].transcript.messages)
            /\ proc[p].transcript.toolCallCount
                 = Cardinality(ToolBlocks(proc[p].transcript.messages))

\* C29: sync state is scoped to one session id. Whatever a Stop or
\* SessionEnd process of one session does (load, save or clear), in any
\* interleaving with a process of another session, the state it loads is
\* the persisted state of its own session and the persisted state of every
\* other session stays as it was.
C29_StateScopedToSession ==
    [][\A p \in Procs :
          proc'[p] # proc[p] =>
             /\ \A s \in Sessions \ {proc'[p].session} : stateFile'[s] = stateFile[s]
             /\ (proc'[p].loaded /\ ~proc[p].loaded)
                   => proc'[p].fileLoaded = stateFile[proc[p].session]]_vars

\* Session sA has a saved state with ids while a process of session sB has
\* just cleared the state of sB, and the other way round for a save.
C29_Witness ==
    /\ stateFile["sA"].kind = "state"
    /\ stateFile["sA"].ids # <<>>
    /\ proc[2].session = "sB"
    /\ proc[2].outcome = "cleared"
    /\ stateFile["sB"].kind = "emptyObject"

\* C30: the SessionStart, UserPromptSubmit and PostToolUse handlers each
\* send at most one immediate record (one session upsert or one message),
\* call nothing else, load no sync state and parse no transcript, and
\* leave the state files and the transcripts as they were.
C30_RealtimeHandlersLeaveStateAlone ==
    [][\A p \in Procs :
          (proc'[p] # proc[p] /\ proc'[p].handler \in RealtimeHandlers) =>
             /\ stateFile' = stateFile
             /\ transcriptFile' = transcriptFile
             /\ ~proc'[p].loaded
             /\ proc'[p].lines = <<>>
             /\ proc'[p].transcript = EmptyTranscript
             /\ Len(proc'[p].steps) <= 1
             /\ Len(proc'[p].newMessages) <= 1
             /\ ToSet(proc'[p].steps) \subseteq {"syncSession", "syncMessage"}]_vars

\* A real-time handler has sent its one message while the state file of
\* its session holds the ids an earlier Stop saved.
C30_Witness ==
    \E p \in Procs :
        /\ proc[p].handler \in {"handleUserPromptSubmit", "handlePostToolUse"}
        /\ proc[p].outcome = "sent"
        /\ proc[p].steps = << "syncMessage" >>
        /\ stateFile[proc[p].session].kind = "state"
        /\ stateFile[proc[p].session].ids # <<>>

\* C31: every response to a sync POST that is not 2xx makes the transport
\* raise the error `Sync failed: <status> - <body>`, and syncSession and
\* syncBatch hand that error on to handleStop: the handler is left at the
\* call, nothing is acknowledged and markMessagesSynced is not reached.
C31_Non2xxRaisesSyncFailed ==
    \A p \in Procs :
        (proc[p].response.kind = "answered" /\ ~ResponseOk(proc[p].response)) =>
            /\ proc[p].error = SyncFailed(proc[p].response)
            /\ proc[p].pc = "exit"
            /\ proc[p].outcome \in {"sessionFailed", "batchFailed"}
            /\ proc[p].steps[Len(proc[p].steps)] \in {"syncSession", "syncBatch"}
            /\ "markMessagesSynced" \notin ToSet(proc[p].steps)
            /\ stateFile[proc[p].session] = proc[p].fileAtStart

\* The batch POST was answered 401 with a body, after the session POST
\* was answered 2xx.
C31_Witness ==
    \E p \in Procs :
        /\ proc[p].response.status = 401
        /\ proc[p].response.body = "unauthorized"
        /\ proc[p].steps[Len(proc[p].steps)] = "syncBatch"
        /\ proc[p].error = "Sync failed: 401 - unauthorized"

\* C32: a Stop invocation whose extraction returns no new record sends no
\* batch and does not write the state file: it exits at once, the file
\* (synced set and lastSyncTime) is what it was when the invocation
\* started, and the accumulated ids hold every id that was loaded.
C32_NothingNewIsNoOp ==
    \A p \in Procs :
        (proc[p].handler = "handleStop" /\ Extracted(p) /\ proc[p].newMessages = <<>>) =>
            /\ proc[p].pc = "exit"
            /\ proc[p].outcome = "nothingNew"
            /\ proc[p].exitCode = 0
            /\ "syncBatch" \notin ToSet(proc[p].steps)
            /\ "markMessagesSynced" \notin ToSet(proc[p].steps)
            /\ stateFile[proc[p].session] = proc[p].fileAtStart
            /\ PersistedIds(proc[p].fileLoaded) \subseteq ToSet(proc[p].allMessageIds)

\* A Stop found nothing new on top of a state file that holds ids.
C32_Witness ==
    \E p \in Procs :
        /\ proc[p].handler = "handleStop"
        /\ proc[p].outcome = "nothingNew"
        /\ proc[p].newMessages = <<>>
        /\ PersistedIds(proc[p].fileLoaded) # {}
        /\ stateFile[proc[p].session] = proc[p].fileAtStart

\* C33: the tool result the PostToolUse handler sends is never longer than
\* 1000 characters, for string responses and for structured responses
\* (their JSON serialization) of any length; it is absent exactly when the
\* payload has no response, and a response within the limit is sent whole.
C33_ToolResultAtMost1000 ==
    \A p \in Procs :
        (proc[p].handler = "handlePostToolUse" /\ "syncMessage" \in ToSet(proc[p].steps)
           /\ proc[p].newMessages # <<>>) =>
            LET response == ToolResponseOf(proc[p].payload)
                result == proc[p].newMessages[1].toolResult
            IN /\ result.length <= 1000
               /\ result.defined <=> response.kind # "absent"
               /\ response.length <= 1000 => result.length = response.length
               /\ response.length > 1000 => result.length = 1000

\* A structured response whose serialization is longer than the limit was
\* sent cut to 1000 characters.
C33_Witness ==
    \E p \in Procs :
        /\ proc[p].handler = "handlePostToolUse"
        /\ proc[p].outcome = "sent"
        /\ ToolResponseOf(proc[p].payload).kind = "structured"
        /\ ToolResponseOf(proc[p].payload).length > 1000
        /\ proc[p].newMessages[1].toolResult.length = 1000

\* The ids of the batches the backend acknowledged for a session since
\* clearSyncState last ran for it.
AckedSinceClear(s) ==
    UNION { ToSet(acked[i].ids) :
              i \in { j \in DOMAIN acked : acked[j].session = s /\ j > lastClear[s] } }

\* C34: in every reachable state, also after a process was killed at any
\* step, every id in a session's persisted synced set is the id of a
\* record of a batch the backend acknowledged since the last clear.
C34_PersistedOnlyAfterAck ==
    \A s \in Sessions : PersistedIds(stateFile[s]) \subseteq AckedSinceClear(s)

\* After a SessionEnd that was killed while clearing, a Stop sent the
\* records again and saved their ids.
C34_Witness ==
    /\ lastClear["sA"] > 0
    /\ PersistedIds(stateFile["sA"]) # {}
    /\ prev.outcome = "killed"
    /\ proc[1].outcome = "saved"

\* C37: when a SessionEnd process starts while a Stop process of the same
\* session is still running, the persisted synced set of the session is
\* empty once both have exited: the Stop does not write a set with ids
\* after the clear.
C37_ClearWinsOverRunningStop ==
    \A p, q \in Procs :
        ( /\ p # q
          /\ invocations = 2
          /\ proc[q].handler = "handleStop" /\ ~proc[q].overlapped
          /\ proc[p].handler = "handleSessionEnd" /\ proc[p].overlapped
          /\ proc[p].session = proc[q].session
          /\ proc[p].pc = "exit" /\ proc[q].pc = "exit" )
        => PersistedIds(stateFile[proc[p].session]) = {}

\* C35: at-most-once delivery survives process death. When a Stop process
\* was killed at any step, a later Stop has no record to transmit whose id
\* is in a batch the backend already acknowledged, and no id is in two
\* acknowledged batches.
C35_AtMostOnceAfterKill ==
    /\ \A p \in Procs :
         (proc[p].handler = "handleStop" /\ proc[p].pc = "syncBatch")
         => ToSet(RecordIds(proc[p].newMessages)) \cap AckedIds(proc[p].session) = {}
    /\ \A i, j \in DOMAIN acked :
         (i < j /\ acked[i].session = acked[j].session)
         => ToSet(acked[i].ids) \cap ToSet(acked[j].ids) = {}

\* C36: the store is merge-safe under concurrent Stop invocations of one
\* session. For any interleaving of the load and write steps of two
\* markMessagesSynced calls, once the calls have completed the persisted
\* set holds the ids each of them wrote: no id that was persisted has been
\* removed again.
C36_ConcurrentSavesMerge ==
    AllIdle =>
        \A p \in Procs :
            proc[p].outcome = "saved"
            => ToSet(proc[p].toSave) \subseteq PersistedIds(stateFile[proc[p].session])

\* C38: the syncThinking setting does not influence extraction. For every
\* transcript and synced set, what extractNewMessages returned under the
\* setting of the process (newMessages, allMessageIds, or the error) is
\* what it returns under the opposite setting.
C38_SyncThinkingHasNoEffect ==
    \A p \in Procs :
        proc[p].loaded =>
            LET other == ExtractNewMessages(proc[p].session, proc[p].transcript,
                                            proc[p].syncToolCalls, ~proc[p].syncThinking,
                                            proc[p].fileLoaded)
            IN /\ other.threw <=> proc[p].outcome = "extractThrew"
               /\ other.newMessages = proc[p].newMessages
               /\ other.allMessageIds = proc[p].allMessageIds

\* An extraction under syncThinking true returned the records of a
\* message that holds a thinking block.
C38_Witness ==
    \E p \in Procs :
        /\ Extracted(p)
        /\ proc[p].syncThinking
        /\ proc[p].newMessages # <<>>
        /\ \E i \in DOMAIN proc[p].transcript.messages :
             \E j \in DOMAIN proc[p].transcript.messages[i].content :
                 proc[p].transcript.messages[i].content[j].type = "thinking"

AllEventNames == EventNames \cup RealtimeEvents \cup {"stop", "SESSION-START", "sessionend"}

\* Each name lower-cased and without its hyphens.
PlainName ==
    LET lower(cs) == [k \in DOMAIN cs |-> ToLowerCase(cs[k])]
        plain(cs) == SelectSeq(cs, LAMBDA c : c # "-")
    IN [a \in AllEventNames |-> plain(lower(Chars(a)))]

\* Two names are equal after lower-casing and removing hyphens.
SameEvent(a, b) == PlainName[a] = PlainName[b]

\* Both dispatchers route names that are the same event to one handler.
RoutingIsUniform ==
    \A a, b \in AllEventNames :
        SameEvent(a, b) =>
           /\ HandlerForRealtime(NormalizeEvent(a)) = HandlerForRealtime(NormalizeEvent(b))
           /\ HandlerFor(NormalizeEvent(a)) = HandlerFor(NormalizeEvent(b))

====
